---- MODULE Spec2Model ----
(***************************************************************************)
(* Winnowing fingerprinter and fingerprint index of the Pascal plagiarism  *)
(* detector: TokenHash, RollingHash, WinnowFilter, FingerprintIndex        *)
(* (src/unnamed/part_002) and PascalPlagiarismDetector.compareTwoFiles     *)
(* (src/fingerprinter/pascalFingerprinter.ts).                             *)
(*                                                                         *)
(* A token is a sequence of UTF-16 code units, a token stream a sequence   *)
(* of tokens.  JavaScript numbers are exact integers below 2^53; every     *)
(* product the hashing code forms is below 2^51, so the model computes     *)
(* (a * b) % MOD exactly, in pieces that fit TLC's 32-bit integers.        *)
(***************************************************************************)
EXTENDS Integers, Sequences, FiniteSets, TLC

\* ------------------------------------------------------------------------
\* Bounds of the model
\* ------------------------------------------------------------------------
\* RollingHash under test: window lengths 1..MaxRollK, at most MaxFeed calls
MaxRollK == 3
MaxFeed == 5
\* WinnowFilter on one token stream: k in 1..MaxK, w in 1..MaxW, streams of
\* at most MaxLen tokens
MaxK == 3
MaxW == 3
MaxLen == 6
\* Two token streams through one filter: streams of at most MaxPairLen tokens
MaxPairLen == 4
\* Repeated calls on one filter: k in 1..MaxHistK, w in 1..MaxHistW, at most
\* MaxCalls calls, streams of at most MaxHistLen tokens over two tokens
MaxHistK == 2
MaxHistW == 2
MaxCalls == 2
MaxHistLen == 3
\* compareTwoFiles: detectors of kgramSize in 1..MaxDetK and windowSize in
\* 1..MaxDetW, streams of at most MaxCmpLen tokens over two tokens
MaxDetK == 2
MaxDetW == 3
MaxCmpLen == 4
\* Scenario files: a shared run between at most MaxSurround tokens on each
\* side, and a file that repeats a stretch of at most MaxRepeat tokens
\* Region coordinates: rows 0..MaxRow and columns 0..MaxCol
MaxRow == 2
MaxCol == 1
MaxSurround == 2
MaxRepeat == 3
\* FingerprintIndex: kgramLength in 1..MaxIdxK, windowSize in 1..MaxIdxW, at
\* most MaxFiles TokenizedFile objects of at most MaxIdxLen tokens, at most
\* MaxAdds addFiles calls
MaxIdxK == 2
MaxIdxW == 1
MaxFiles == 2
MaxIdxLen == 2
MaxAdds == 2
\* A corpus indexed in one addFiles call: at most MaxCorpusFiles files
MaxCorpusFiles == 3
\* Hash arithmetic: at most MaxArithFeed values fed, tokens of at most
\* MaxArithTokenLen characters
MaxArithFeed == 3
MaxArithTokenLen == 1
\* File objects: at most MaxObjects constructions, explicit ids 0..MaxExplicitId
MaxObjects == 3
MaxExplicitId == 2
\* Constructor arguments: kgram and window sizes -MaxBelow..MaxCtorArg
MaxBelow == 1
MaxCtorArg == 2

\* ------------------------------------------------------------------------
\* Program constants
\* ------------------------------------------------------------------------
\* TokenHash.mod and RollingHash.mod
MOD == 33554393
\* TokenHash.base
TOKEN_BASE == 747287
\* RollingHash.base
ROLL_BASE == 4194301
\* Number.MAX_SAFE_INTEGER, the filler of an unwritten window slot.  It is
\* 2^53 - 1 in the program; the model keeps what the code uses of it, that it
\* is above every hash, with the largest integer TLC has.
MAX_SAFE_INTEGER == 2147483647

\* The token alphabet of the model: "ID", "IF", ";" as UTF-16 code units.
TokID == <<73, 68>>
TokIF == <<73, 70>>
TokSEMI == <<59>>
Alphabet == {TokID, TokIF, TokSEMI}
\* The tokens "PROGRAM", "SEMI", "BEGIN", "WRITE", "END", "DOT"
TokPROGRAM == <<80, 82, 79, 71, 82, 65, 77>>
TokSemi == <<83, 69, 77, 73>>
TokBEGIN == <<66, 69, 71, 73, 78>>
TokWRITE == <<87, 82, 73, 84, 69>>
TokEND == <<69, 78, 68>>
TokDOT == <<68, 79, 84>>

\* All token streams of at most n tokens
Streams(n) == UNION {[1..m -> Alphabet] : m \in 0..n}

\* All token streams of at most n tokens over two tokens of the alphabet
ShortStreams(n) == UNION {[1..m -> {TokID, TokSEMI}] : m \in 0..n}

\* An optional value: null, or the value present
Null == <<>>
Some(x) == <<x>>

\* ------------------------------------------------------------------------
\* JavaScript arithmetic
\* ------------------------------------------------------------------------
\* a % n of JavaScript for n > 0: the remainder has the sign of the dividend.
JsRem(a, n) == IF a >= 0 THEN a % n ELSE -((-a) % n)

Min2(a, b) == IF a <= b THEN a ELSE b
Max2(a, b) == IF a >= b THEN a ELSE b

\* Array.prototype.slice(from, to) on a 1-based sequence with 0-based
\* arguments: a negative index counts from the end, both are clamped.
JsSlice(s, from, to) ==
  LET n == Len(s)
      f == IF from < 0 THEN Max2(n + from, 0) ELSE Min2(from, n)
      t == IF to < 0 THEN Max2(n + to, 0) ELSE Min2(to, n)
  IN  IF f >= t THEN <<>> ELSE [j \in 1..(t - f) |-> s[f + j]]

\* (a * b) % MOD for 0 <= a < 2^25 + 2^16 and 0 <= b < 2^30, the value the
\* code's `(a * b) % this.mod` has: b is taken in five base-64 digits so no
\* intermediate leaves 32 bits.
MulMod(a, b) ==
  LET step(r, d) == (((r * 64) % MOD) + ((a * d) % MOD)) % MOD
      d4 == b \div 16777216
      d3 == (b \div 262144) % 64
      d2 == (b \div 4096) % 64
      d1 == (b \div 64) % 64
      d0 == b % 64
  IN  step(step(step(step(step(0, d4), d3), d2), d1), d0)

\* ------------------------------------------------------------------------
\* TokenHash
\* ------------------------------------------------------------------------
RECURSIVE HashTokenFrom(_, _, _)
HashTokenFrom(token, i, hash) ==
  IF i > Len(token) THEN hash
  ELSE HashTokenFrom(token, i + 1, MulMod(hash + token[i], TOKEN_BASE))

\* TokenHash.hashToken
hashToken(token) == HashTokenFrom(token, 1, 0)

\* ------------------------------------------------------------------------
\* RollingHash
\* ------------------------------------------------------------------------
\* The loop of modPow: while (e > 1) { if (e & 1) y = b*y % mod; b = b*b % mod; e >>= 1 }
RECURSIVE ModPowLoop(_, _, _)
ModPowLoop(y, b, e) ==
  IF e > 1
  THEN ModPowLoop(IF e % 2 = 1 THEN MulMod(b, y) ELSE y, MulMod(b, b), e \div 2)
  ELSE MulMod(b, y)

\* modPow with the accumulated odd-bit factor dropped from the result
modPowDropsFactor(base, exp) ==
  LET RECURSIVE Sq(_, _)
      Sq(b, e) == IF e > 1 THEN Sq(MulMod(b, b), e \div 2) ELSE b
  IN  Sq(base, exp)

\* RollingHash.modPow(base, exp, this.mod)
modPow(base, exp) == ModPowLoop(1, base, exp)

\* new RollingHash(k)
NewRollingHash(k) ==
  [k |-> k,
   maxBase |-> MOD - modPow(ROLL_BASE, k),
   memory |-> [j \in 0..(k - 1) |-> 0],
   i |-> 0,
   hash |-> 0]

\* nextHash with the remainder taken before the token is added
nextHashReducesEarly(r, token) ==
  LET h == ((MulMod(r.hash, ROLL_BASE) + MulMod(r.memory[r.i], r.maxBase)) % MOD) + token
  IN  [r EXCEPT !.hash = h,
                !.memory = [r.memory EXCEPT ![r.i] = token],
                !.i = (r.i + 1) % r.k]

\* nextHash with the evicted token hash left in the running hash
nextHashNoEvict(r, token) ==
  LET h == (MulMod(r.hash, ROLL_BASE) + token) % MOD
  IN  [r EXCEPT !.hash = h,
                !.memory = [r.memory EXCEPT ![r.i] = token],
                !.i = (r.i + 1) % r.k]

\* RollingHash.nextHash(token): the object after the call; its .hash is the
\* value returned.
nextHash(r, token) ==
  LET h == (MulMod(r.hash, ROLL_BASE) + token + MulMod(r.memory[r.i], r.maxBase)) % MOD
  IN  [r EXCEPT !.hash = h,
                !.memory = [r.memory EXCEPT ![r.i] = token],
                !.i = (r.i + 1) % r.k]

\* ------------------------------------------------------------------------
\* WinnowFilter
\* ------------------------------------------------------------------------
\* new WinnowFilter(k, windowSize, kgramData)
NewWinnowFilter(k, windowSize, kgramData) ==
  [k |-> k, windowSize |-> windowSize, kgramData |-> kgramData]

\* WinnowFilter.hashTokens
hashTokens(tokens) == [j \in 1..Len(tokens) |-> <<hashToken(tokens[j]), tokens[j]>>]

\* The locals with the file position starting one token too far
EnterFingerprintsOneAhead(prev, wf) ==
  [hash |-> NewRollingHash(wf.k),
   filePos |-> 1 - wf.k,
   bufferPos |-> 0,
   minPos |-> 0,
   buffer |-> [j \in 0..(wf.windowSize - 1) |-> MAX_SAFE_INTEGER],
   fingerprints |-> <<>>]

\* The window buffer kept from the previous call instead of a new one
EnterFingerprintsKeepsBuffer(prev, wf) ==
  [hash |-> NewRollingHash(wf.k),
   filePos |-> -wf.k,
   bufferPos |-> 0,
   minPos |-> 0,
   buffer |-> prev.buffer,
   fingerprints |-> <<>>]

\* The locals fingerprints() declares on entry.  prev, the locals the previous
\* call on this filter left behind, is not read: every local is made anew.
EnterFingerprints(prev, wf) ==
  [hash |-> NewRollingHash(wf.k),
   filePos |-> -wf.k,
   bufferPos |-> 0,
   minPos |-> 0,
   buffer |-> [j \in 0..(wf.windowSize - 1) |-> MAX_SAFE_INTEGER],
   fingerprints |-> <<>>]

\* The re-scan loop: for (i = (bufferPos+1) % w; i !== bufferPos; i = (i+1) % w)
\*   if (buffer[i] <= buffer[minPos]) minPos = i
RECURSIVE Rescan(_, _, _, _, _)
Rescan(buffer, i, bufferPos, minPos, w) ==
  IF i = bufferPos THEN minPos
  ELSE Rescan(buffer, (i + 1) % w, bufferPos,
              IF buffer[i] <= buffer[minPos] THEN i ELSE minPos, w)

\* The fingerprint with the slot distance reduced to 0..windowSize-1, the
\* remainder of a floored division
MakeFingerprintFlooredOffset(wf, tokens, buffer, minPos, bufferPos, filePos) ==
  LET offset == (minPos - bufferPos - wf.windowSize) % wf.windowSize
      start == filePos + offset
  IN  [data |-> IF wf.kgramData THEN Some(JsSlice(tokens, start, start + wf.k))
                ELSE Null,
       hash |-> buffer[minPos],
       start |-> start,
       stop |-> start + wf.k - 1]

\* The fingerprint with stop one past the last token of the k-gram
MakeFingerprintOpenStop(wf, tokens, buffer, minPos, bufferPos, filePos) ==
  LET offset == JsRem(minPos - bufferPos - wf.windowSize, wf.windowSize)
      start == filePos + offset
  IN  [data |-> IF wf.kgramData THEN Some(JsSlice(tokens, start, start + wf.k))
                ELSE Null,
       hash |-> buffer[minPos],
       start |-> start,
       stop |-> start + wf.k]

\* The fingerprint with the slot distance taken without wrapping around the
\* circular buffer
MakeFingerprintNoWrap(wf, tokens, buffer, minPos, bufferPos, filePos) ==
  LET start == filePos + (minPos - bufferPos)
  IN  [data |-> IF wf.kgramData THEN Some(JsSlice(tokens, start, start + wf.k))
                ELSE Null,
       hash |-> buffer[minPos],
       start |-> start,
       stop |-> start + wf.k - 1]

\* The fingerprint pushed for the k-gram in slot minPos
MakeFingerprint(wf, tokens, buffer, minPos, bufferPos, filePos) ==
  LET offset == JsRem(minPos - bufferPos - wf.windowSize, wf.windowSize)
      start == filePos + offset
  IN  [data |-> IF wf.kgramData THEN Some(JsSlice(tokens, start, start + wf.k))
                ELSE Null,
       hash |-> buffer[minPos],
       start |-> start,
       stop |-> start + wf.k - 1]

\* One iteration of the loop of fingerprints() over [hashedToken, token]
WinnowStep(wf, tokens, f, hashedToken) ==
  LET filePos == f.filePos + 1
      hash == nextHash(f.hash, hashedToken)
      bufferPos == (f.bufferPos + 1) % wf.windowSize
      buffer == [f.buffer EXCEPT ![bufferPos] = hash.hash]
  IN  IF filePos < 0
      THEN [f EXCEPT !.filePos = filePos, !.hash = hash]
      ELSE IF f.minPos = bufferPos
      THEN LET minPos == Rescan(buffer, (bufferPos + 1) % wf.windowSize,
                                bufferPos, f.minPos, wf.windowSize)
           IN  [hash |-> hash, filePos |-> filePos, bufferPos |-> bufferPos,
                minPos |-> minPos, buffer |-> buffer,
                fingerprints |->
                  Append(f.fingerprints,
                         MakeFingerprint(wf, tokens, buffer, minPos, bufferPos, filePos))]
      ELSE IF buffer[bufferPos] <= buffer[f.minPos]
      THEN [hash |-> hash, filePos |-> filePos, bufferPos |-> bufferPos,
            minPos |-> bufferPos, buffer |-> buffer,
            fingerprints |->
              Append(f.fingerprints,
                     MakeFingerprint(wf, tokens, buffer, bufferPos, bufferPos, filePos))]
      ELSE [f EXCEPT !.hash = hash, !.filePos = filePos,
                     !.bufferPos = bufferPos, !.buffer = buffer]

RECURSIVE WinnowLoop(_, _, _, _, _)
WinnowLoop(wf, tokens, hashed, j, f) ==
  IF j > Len(hashed) THEN f
  ELSE WinnowLoop(wf, tokens, hashed, j + 1, WinnowStep(wf, tokens, f, hashed[j][1]))

\* WinnowFilter.fingerprints(tokens) called on filter wf whose previous call
\* left the locals prev: the locals at return; .fingerprints is the result.
RunFingerprints(prev, wf, tokens) ==
  WinnowLoop(wf, tokens, hashTokens(tokens), 1, EnterFingerprints(prev, wf))

\* A filter on which fingerprints() has not run yet has no locals of an
\* earlier call; the model gives it those of a call that never hashed a token.
NoFrame(wf) ==
  [hash |-> NewRollingHash(wf.k),
   buffer |-> [j \in 0..(wf.windowSize - 1) |-> MAX_SAFE_INTEGER]]

\* WinnowFilter.fingerprints(tokens) on a filter wf: the array returned
fingerprints(wf, tokens) == RunFingerprints(NoFrame(wf), wf, tokens).fingerprints

\* ------------------------------------------------------------------------
\* Region
\* ------------------------------------------------------------------------
\* Validity with the columns compared on every row
RegionValidColumnsAlways(startRow, startCol, endRow, endCol) ==
  startRow <= endRow /\ startCol <= endCol

\* Region.valid
RegionValid(startRow, startCol, endRow, endCol) ==
  startRow < endRow \/ (startRow = endRow /\ startCol <= endCol)

\* new Region(...): the constructor throws exactly when RegionThrows
RegionThrows(startRow, startCol, endRow, endCol) ==
  ~RegionValid(startRow, startCol, endRow, endCol)

\* new Region(...): the object, when the constructor returns
NewRegion(startRow, startCol, endRow, endCol) ==
  [startRow |-> startRow, startCol |-> startCol, endRow |-> endRow, endCol |-> endCol]

\* Region.compare
RegionCompare(left, right) ==
  IF left.startRow - right.startRow # 0 THEN left.startRow - right.startRow
  ELSE IF left.startCol - right.startCol # 0 THEN left.startCol - right.startCol
  ELSE IF left.endRow - right.endRow # 0 THEN left.endRow - right.endRow
  ELSE left.endCol - right.endCol

\* The arguments with the start and the end of the first region kept when
\* the rows are equal
RegionMergeArgsOfFirst(one, other) ==
  [startRow |-> IF one.startRow < other.startRow THEN one.startRow
                ELSE IF one.startRow > other.startRow THEN other.startRow
                ELSE one.startRow,
   startCol |-> IF one.startRow < other.startRow THEN one.startCol
                ELSE IF one.startRow > other.startRow THEN other.startCol
                ELSE one.startCol,
   endRow |-> IF one.endRow > other.endRow THEN one.endRow
              ELSE IF one.endRow < other.endRow THEN other.endRow
              ELSE one.endRow,
   endCol |-> IF one.endRow > other.endRow THEN one.endCol
              ELSE IF one.endRow < other.endRow THEN other.endCol
              ELSE one.endCol]

\* The four arguments Region.merge passes to the constructor
RegionMergeArgs(one, other) ==
  [startRow |-> IF one.startRow < other.startRow THEN one.startRow
                ELSE IF one.startRow > other.startRow THEN other.startRow
                ELSE one.startRow,
   startCol |-> IF one.startRow < other.startRow THEN one.startCol
                ELSE IF one.startRow > other.startRow THEN other.startCol
                ELSE Min2(one.startCol, other.startCol),
   endRow |-> IF one.endRow > other.endRow THEN one.endRow
              ELSE IF one.endRow < other.endRow THEN other.endRow
              ELSE one.endRow,
   endCol |-> IF one.endRow > other.endRow THEN one.endCol
              ELSE IF one.endRow < other.endRow THEN other.endCol
              ELSE Max2(one.endCol, other.endCol)]

\* Region.merge: the region returned, and whether its constructor throws
RegionMerge(one, other) ==
  LET a == RegionMergeArgs(one, other)
  IN  NewRegion(a.startRow, a.startCol, a.endRow, a.endCol)

RegionMergeThrows(one, other) ==
  LET a == RegionMergeArgs(one, other)
  IN  RegionThrows(a.startRow, a.startCol, a.endRow, a.endCol)

\* this.overlapsWith(other); [this, other].sort(Region.compare) swaps the two
\* exactly when compare(this, other) > 0.
overlapsWith(this, other) ==
  LET left == IF RegionCompare(this, other) > 0 THEN other ELSE this
      right == IF RegionCompare(this, other) > 0 THEN this ELSE other
  IN  IF left.endRow < right.startRow THEN FALSE
      ELSE IF left.endRow = right.startRow THEN right.startCol < left.endCol
      ELSE TRUE

\* ------------------------------------------------------------------------
\* Numbers of the detector
\* ------------------------------------------------------------------------
RECURSIVE Gcd(_, _)
Gcd(a, b) == IF b = 0 THEN a ELSE Gcd(b, a % b)

\* The quotient n / d of two integers, d > 0, as a fraction in lowest terms.
\* Two quotients of integers this small are the same double exactly when
\* they are the same fraction.
Frac(n, d) == LET g == Gcd(n, d) IN <<n \div g, d \div g>>
FracZero == <<0, 1>>
FracOne == <<1, 1>>
\* 0 / 0, which is NaN
FracNaN == <<0, 0>>
FracLeq(x, y) == x[1] * y[2] <= y[1] * x[2]
FracMax(x, y) == IF FracLeq(x, y) THEN y ELSE x
FracMin(x, y) == IF FracLeq(x, y) THEN x ELSE y

\* new Set(array): the distinct elements in order of first appearance
RECURSIVE JsSetFrom(_, _, _)
JsSetFrom(array, j, acc) ==
  IF j > Len(array) THEN acc
  ELSE JsSetFrom(array, j + 1,
                 IF \E i \in DOMAIN acc : acc[i] = array[j] THEN acc
                 ELSE Append(acc, array[j]))

\* new Set(array) with every element kept, duplicates included
JsSetKeepsDuplicates(array) == array

JsSet(array) == JsSetFrom(array, 1, <<>>)
JsSetHas(set, x) == \E i \in DOMAIN set : set[i] = x

\* array.filter(x => ...): keep[j] tells whether the callback holds of array[j]
RECURSIVE JsFilter(_, _, _, _)
JsFilter(array, keep, j, acc) ==
  IF j > Len(array) THEN acc
  ELSE JsFilter(array, keep, j + 1, IF keep[j] THEN Append(acc, array[j]) ELSE acc)

\* array.sort((a, b) => key(a) - key(b)), stable and ascending, on an array of
\* <<key, element>>
RECURSIVE InsertByKey(_, _)
InsertByKey(sorted, x) ==
  IF sorted = <<>> THEN <<x>>
  ELSE IF sorted[Len(sorted)][1] <= x[1] THEN Append(sorted, x)
  ELSE Append(InsertByKey(SubSeq(sorted, 1, Len(sorted) - 1), x),
              sorted[Len(sorted)])

RECURSIVE SortByKeyFrom(_, _, _)
SortByKeyFrom(keyed, j, acc) ==
  IF j > Len(keyed) THEN acc
  ELSE SortByKeyFrom(keyed, j + 1, InsertByKey(acc, keyed[j]))

SortByKey(keyed) ==
  LET sorted == SortByKeyFrom(keyed, 1, <<>>)
  IN  [j \in DOMAIN sorted |-> sorted[j][2]]

RECURSIVE SeqMin(_, _)
SeqMin(s, j) == IF j = Len(s) THEN s[j] ELSE Min2(s[j], SeqMin(s, j + 1))
RECURSIVE SeqMax(_, _)
SeqMax(s, j) == IF j = Len(s) THEN s[j] ELSE Max2(s[j], SeqMax(s, j + 1))

\* ------------------------------------------------------------------------
\* PascalPlagiarismDetector
\* ------------------------------------------------------------------------
\* The constructor throws when windowSize < kgramSize
DetectorThrows(kgramSize, windowSize) == windowSize < kgramSize

\* new PascalPlagiarismDetector(kgramSize, windowSize), when it returns
NewDetector(kgramSize, windowSize) ==
  [kgramSize |-> kgramSize,
   windowSize |-> windowSize,
   winnowFilter |-> NewWinnowFilter(kgramSize, windowSize, TRUE)]

\* estimatePosition(tokenIndex, tokens)
estimatePosition(tokenIndex) ==
  [line |-> (tokenIndex \div 10) + 1, column |-> (tokenIndex % 10) + 1]

\* The Region built from the estimated positions of two token indexes
EstimatedRegion(from, to) ==
  NewRegion(estimatePosition(from).line, estimatePosition(from).column,
            estimatePosition(to).line, estimatePosition(to).column)

EstimatedRegionThrows(from, to) ==
  RegionThrows(estimatePosition(from).line, estimatePosition(from).column,
               estimatePosition(to).line, estimatePosition(to).column)

\* createRegionsFromFingerprints
createRegionsFromFingerprints(fps) ==
  [j \in DOMAIN fps |-> EstimatedRegion(fps[j].start, fps[j].stop)]

createRegionsFromFingerprintsThrows(fps) ==
  \E j \in DOMAIN fps : EstimatedRegionThrows(fps[j].start, fps[j].stop)

\* The FingerprintData generateFingerprints builds from the list fps the
\* winnow filter returned
FingerprintData(fps) ==
  [fingerprints |-> JsSet([j \in DOMAIN fps |-> fps[j].hash]),
   fingerprintArray |-> [j \in DOMAIN fps |-> fps[j].hash],
   positionedFingerprints |->
     [j \in DOMAIN fps |->
        [data |-> fps[j].data, hash |-> fps[j].hash,
         start |-> fps[j].start, stop |-> fps[j].stop,
         position |-> fps[j].start,
         kgram |-> IF fps[j].data = Null THEN <<>> ELSE fps[j].data[1]]],
   regions |-> createRegionsFromFingerprints(fps),
   raised |-> createRegionsFromFingerprintsThrows(fps)]

\* generateFingerprints(tokens); .raised when a Region constructor threw
generateFingerprints(det, tokens) ==
  IF Len(tokens) < det.kgramSize
  THEN [fingerprints |-> <<>>, fingerprintArray |-> <<>>,
        positionedFingerprints |-> <<>>, regions |-> <<>>, raised |-> FALSE]
  ELSE FingerprintData(fingerprints(det.winnowFilter, tokens))

\* The confidence with the share of the region's length left out
ConfidenceDensityOnly(clusterSize, regionLength, k) ==
  LET raw == IF regionLength >= k
             THEN Frac(20 * clusterSize * k * k, 25 * k * regionLength)
             ELSE Frac(20 * clusterSize * k, 25 * k)
  IN  FracMin(FracOne, raw)

\* The confidence of a region of regionLength tokens built from clusterSize
\* matches: min(1, clusterSize / max(1, regionLength / k) * 0.8
\*                 + regionLength / (k * 5) * 0.2), as an exact fraction
Confidence(clusterSize, regionLength, k) ==
  LET raw == IF regionLength >= k
             THEN Frac(20 * clusterSize * k * k + regionLength * regionLength,
                       25 * k * regionLength)
             ELSE Frac(20 * clusterSize * k + regionLength, 25 * k)
  IN  FracMin(FracOne, raw)

\* createSharedRegion(cluster, tokens1, tokens2)
createSharedRegion(det, cluster, tokens1, tokens2) ==
  LET file1Range ==
        [start |-> SeqMin([j \in DOMAIN cluster |-> cluster[j].fp1.start], 1),
         end |-> SeqMax([j \in DOMAIN cluster |-> cluster[j].fp1.stop], 1)]
      file2Range ==
        [start |-> SeqMin([j \in DOMAIN cluster |-> cluster[j].fp2.start], 1),
         end |-> SeqMax([j \in DOMAIN cluster |-> cluster[j].fp2.stop], 1)]
      regionLength == file1Range.end - file1Range.start + 1
  IN  [file1Range |-> file1Range,
       file2Range |-> file2Range,
       file1Lines |-> [start |-> estimatePosition(file1Range.start).line,
                       end |-> estimatePosition(file1Range.end).line],
       file2Lines |-> [start |-> estimatePosition(file2Range.start).line,
                       end |-> estimatePosition(file2Range.end).line],
       sharedTokens |-> JsSlice(tokens1, file1Range.start, file1Range.end + 1),
       confidence |-> Confidence(Len(cluster), regionLength, det.kgramSize),
       region1 |-> EstimatedRegion(file1Range.start, file1Range.end),
       region2 |-> EstimatedRegion(file2Range.start, file2Range.end),
       raised |-> \/ EstimatedRegionThrows(file1Range.start, file1Range.end)
                  \/ EstimatedRegionThrows(file2Range.start, file2Range.end)]

\* determineRegionType(region): the thresholds 0.9 and 0.7
determineRegionType(region) ==
  IF FracLeq(Frac(9, 10), region.confidence) THEN "EXACT"
  ELSE IF FracLeq(Frac(7, 10), region.confidence) THEN "SIMILAR"
  ELSE "STRUCTURAL"

\* One iteration of the loop of mergeOverlappingRegions over sorted[i]
MergeStep(m, next) ==
  IF overlapsWith(m.current.region1, next.region1)
  THEN LET mergedRegion1 == RegionMerge(m.current.region1, next.region1)
           mergedRegion2 == RegionMerge(m.current.region2, next.region2)
       IN  [m EXCEPT !.current =
              [file1Range |->
                 [start |-> Min2(m.current.file1Range.start, next.file1Range.start),
                  end |-> Max2(m.current.file1Range.end, next.file1Range.end)],
               file2Range |->
                 [start |-> Min2(m.current.file2Range.start, next.file2Range.start),
                  end |-> Max2(m.current.file2Range.end, next.file2Range.end)],
               file1Lines |-> [start |-> mergedRegion1.startRow, end |-> mergedRegion1.endRow],
               file2Lines |-> [start |-> mergedRegion2.startRow, end |-> mergedRegion2.endRow],
               sharedTokens |-> m.current.sharedTokens \o next.sharedTokens,
               confidence |-> FracMax(m.current.confidence, next.confidence),
               region1 |-> mergedRegion1,
               region2 |-> mergedRegion2,
               raised |-> \/ m.current.raised \/ next.raised
                          \/ RegionMergeThrows(m.current.region1, next.region1)
                          \/ RegionMergeThrows(m.current.region2, next.region2)]]
  ELSE [merged |-> Append(m.merged, m.current), current |-> next]

RECURSIVE MergeLoop(_, _, _)
MergeLoop(sorted, i, m) ==
  IF i > Len(sorted) THEN Append(m.merged, m.current)
  ELSE MergeLoop(sorted, i + 1, MergeStep(m, sorted[i]))

\* mergeOverlappingRegions(regions)
mergeOverlappingRegions(regions) ==
  IF Len(regions) <= 1 THEN regions
  ELSE LET sorted == SortByKey([j \in DOMAIN regions |->
                                   <<regions[j].file1Range.start, regions[j]>>])
       IN  MergeLoop(sorted, 2, [merged |-> <<>>, current |-> sorted[1]])

\* The iteration with a closed cluster of any size turned into a region
ClusterStepKeepsSingletons(det, tokens1, tokens2, c, match) ==
  IF Len(c.currentCluster) = 0
  THEN [c EXCEPT !.currentCluster = Append(c.currentCluster, match)]
  ELSE LET lastMatch == c.currentCluster[Len(c.currentCluster)]
           gap1 == match.fp1.position - lastMatch.fp1.stop
           d2 == match.fp2.position - lastMatch.fp2.stop
           gap2 == IF d2 < 0 THEN -d2 ELSE d2
           dd == (match.fp1.position - lastMatch.fp1.position)
                 - (match.fp2.position - lastMatch.fp2.position)
           positionDrift == IF dd < 0 THEN -dd ELSE dd
           shouldMerge == /\ gap1 <= det.kgramSize * 2
                          /\ gap2 <= det.kgramSize * 2
                          /\ positionDrift <= det.kgramSize
       IN  IF shouldMerge
           THEN [c EXCEPT !.currentCluster = Append(c.currentCluster, match)]
           ELSE [regions |-> Append(c.regions,
                                    createSharedRegion(det, c.currentCluster,
                                                       tokens1, tokens2)),
                 currentCluster |-> <<match>>]

\* One iteration of the loop of clusterMatchesIntoRegions over matches[i]
ClusterStep(det, tokens1, tokens2, c, match) ==
  IF Len(c.currentCluster) = 0
  THEN [c EXCEPT !.currentCluster = Append(c.currentCluster, match)]
  ELSE LET lastMatch == c.currentCluster[Len(c.currentCluster)]
           gap1 == match.fp1.position - lastMatch.fp1.stop
           d2 == match.fp2.position - lastMatch.fp2.stop
           gap2 == IF d2 < 0 THEN -d2 ELSE d2
           dd == (match.fp1.position - lastMatch.fp1.position)
                 - (match.fp2.position - lastMatch.fp2.position)
           positionDrift == IF dd < 0 THEN -dd ELSE dd
           shouldMerge == /\ gap1 <= det.kgramSize * 2
                          /\ gap2 <= det.kgramSize * 2
                          /\ positionDrift <= det.kgramSize
       IN  IF shouldMerge
           THEN [c EXCEPT !.currentCluster = Append(c.currentCluster, match)]
           ELSE [regions |-> IF Len(c.currentCluster) >= 2
                             THEN Append(c.regions,
                                         createSharedRegion(det, c.currentCluster,
                                                            tokens1, tokens2))
                             ELSE c.regions,
                 currentCluster |-> <<match>>]

RECURSIVE ClusterLoop(_, _, _, _, _, _)
ClusterLoop(det, tokens1, tokens2, matches, i, c) ==
  IF i > Len(matches) THEN c
  ELSE ClusterLoop(det, tokens1, tokens2, matches, i + 1,
                   ClusterStep(det, tokens1, tokens2, c, matches[i]))

\* clusterMatchesIntoRegions(matches, tokens1, tokens2)
clusterMatchesIntoRegions(det, matches, tokens1, tokens2) ==
  LET c == ClusterLoop(det, tokens1, tokens2, matches, 1,
                       [regions |-> <<>>, currentCluster |-> <<>>])
      regions == IF Len(c.currentCluster) >= 2
                 THEN Append(c.regions,
                             createSharedRegion(det, c.currentCluster, tokens1, tokens2))
                 ELSE c.regions
  IN  mergeOverlappingRegions(regions)

\* The matches findSharedRegions collects: for each hash of file 1, in order
\* of first appearance, that file 2 has too, every pair (fp1, fp2) carrying it
RECURSIVE MatchesFrom(_, _, _, _, _)
MatchesFrom(hashes1, fingerprints1, fingerprints2, h, acc) ==
  IF h > Len(hashes1) THEN acc
  ELSE LET fps1 == JsFilter(fingerprints1,
                             [j \in DOMAIN fingerprints1 |->
                                fingerprints1[j].hash = hashes1[h]], 1, <<>>)
           fps2 == JsFilter(fingerprints2,
                             [j \in DOMAIN fingerprints2 |->
                                fingerprints2[j].hash = hashes1[h]], 1, <<>>)
           pairs == [n \in 1..(Len(fps1) * Len(fps2)) |->
                       LET fp1 == fps1[((n - 1) \div Len(fps2)) + 1]
                           fp2 == fps2[((n - 1) % Len(fps2)) + 1]
                           d == fp1.position - fp2.position
                       IN  [fp1 |-> fp1, fp2 |-> fp2,
                            distance |-> IF d < 0 THEN -d ELSE d]]
       IN  MatchesFrom(hashes1, fingerprints1, fingerprints2, h + 1, acc \o pairs)

\* findSharedRegions(fingerprints1, fingerprints2, tokens1, tokens2)
findSharedRegions(det, fingerprints1, fingerprints2, tokens1, tokens2) ==
  LET hashes1 == JsSet([j \in DOMAIN fingerprints1 |-> fingerprints1[j].hash])
      matches == MatchesFrom(hashes1, fingerprints1, fingerprints2, 1, <<>>)
  IN  IF Len(matches) = 0 THEN <<>>
      ELSE clusterMatchesIntoRegions(
             det,
             SortByKey([j \in DOMAIN matches |-> <<matches[j].fp1.position, matches[j]>>]),
             tokens1, tokens2)


\* The union taken over file 1's hashes only
UnionSizeOfFile1(set1, set2) == Len(set1)

\* The size of the union taken as the sum of the two sizes
UnionSizeCountsTwice(set1, set2) == Len(set1) + Len(set2)

\* new Set([...set1, ...set2]).size
UnionSize(set1, set2) == Len(JsSet(set1 \o set2))

\* intersection.size / union.size with the guard on an empty union missing
JaccardUnguarded(intersectionSize, unionSize) ==
  IF unionSize > 0 THEN Frac(intersectionSize, unionSize) ELSE FracNaN

\* union.size > 0 ? intersection.size / union.size : 0
Jaccard(intersectionSize, unionSize) ==
  IF unionSize > 0 THEN Frac(intersectionSize, unionSize) ELSE FracZero

\* The SimilarityResult compareTwoFiles builds from the two sets of hashes,
\* their intersection and the shared regions
\* (qualityScore and the performanceMetrics timers read the clock and feed
\* no other field; they are left out)
SimilarityResult(set1, set2, intersection, sharedRegions) ==
  [raised |-> FALSE,
   similarity |-> Jaccard(Len(intersection), UnionSize(set1, set2)),
   overlapSimilarity1 |-> IF Len(set1) > 0 THEN Frac(Len(intersection), Len(set1))
                          ELSE FracZero,
   overlapSimilarity2 |-> IF Len(set2) > 0 THEN Frac(Len(intersection), Len(set2))
                          ELSE FracZero,
   sharedFingerprints |-> Len(intersection),
   sharedRegions |-> sharedRegions]

\* new Set([...set1].filter(f => set2.has(f)))
Intersection(set1, set2) ==
  JsSet(JsFilter(set1, [j \in DOMAIN set1 |-> JsSetHas(set2, set1[j])], 1, <<>>))

\* compareTwoFiles once the two FingerprintData are generated
CompareFingerprints(det, fingerprints1, fingerprints2, tokens1, tokens2) ==
  IF fingerprints1.raised \/ fingerprints2.raised THEN [raised |-> TRUE]
  ELSE LET sharedRegions == findSharedRegions(det,
                                              fingerprints1.positionedFingerprints,
                                              fingerprints2.positionedFingerprints,
                                              tokens1, tokens2)
       IN  IF \E j \in DOMAIN sharedRegions : sharedRegions[j].raised
           THEN [raised |-> TRUE]
           ELSE SimilarityResult(fingerprints1.fingerprints, fingerprints2.fingerprints,
                                 Intersection(fingerprints1.fingerprints,
                                              fingerprints2.fingerprints),
                                 sharedRegions)

\* compareTwoFiles(tokens1, tokens2): the result, or .raised when an
\* exception left the call.  The similarities are exact fractions.
compareTwoFiles(det, tokens1, tokens2) ==
  CompareFingerprints(det, generateFingerprints(det, tokens1),
                      generateFingerprints(det, tokens2), tokens1, tokens2)

\* ------------------------------------------------------------------------
\* File and TokenizedFile
\* ------------------------------------------------------------------------
\* The File constructor with File.nextId = next and the id argument idArg
\* (Null when undefined): the id of the new object and File.nextId afterwards
FileConstructor(next, idArg) ==
  LET id == IF idArg # Null THEN idArg[1] ELSE next
      afterIncrement == IF idArg # Null THEN next ELSE next + 1
  IN  [id |-> id, nextId |-> Max2(afterIncrement, id + 1)]

\* The per-token regions the tokenizer hands over: token j on row 0, columns
\* j..j+1
TokenRegions(tokens) == [j \in 1..Len(tokens) |-> NewRegion(0, j - 1, 0, j)]

\* new TokenizedFile(file, fileRegion, tokens, regions) with File.nextId =
\* next: super(file.path, file.content, file.extra, file.id)
TokenizedFileConstructor(next, file, tokens, regions) ==
  LET c == FileConstructor(next, Some(file.id))
  IN  [object |-> [id |-> c.id, tokens |-> tokens, regions |-> regions],
       nextId |-> c.nextId]

\* ------------------------------------------------------------------------
\* JavaScript Map: the entries <<key, value>> in insertion order
\* ------------------------------------------------------------------------
MapHas(m, key) == \E j \in DOMAIN m : m[j][1] = key
MapGet(m, key) == m[CHOOSE j \in DOMAIN m : m[j][1] = key][2]
\* Map.set: a present key keeps its place and takes the new value
MapSet(m, key, value) ==
  IF MapHas(m, key)
  THEN [j \in DOMAIN m |-> IF m[j][1] = key THEN <<key, value>> ELSE m[j]]
  ELSE Append(m, <<key, value>>)

\* ------------------------------------------------------------------------
\* Range, SharedFingerprint, FingerprintIndex
\* ------------------------------------------------------------------------
\* new Range(from, to): to = -1 stands for from + 1
NewRange(from, to) == [from |-> from, to |-> IF to = -1 THEN from + 1 ELSE to]

\* The Range constructor throws when from >= to
RangeThrows(from, to) == NewRange(from, to).from >= NewRange(from, to).to

\* new SharedFingerprint(hash, kgram)
NewSharedFingerprint(hash, kgram) ==
  [hash |-> hash, kgram |-> kgram, ignored |-> FALSE, partMap |-> <<>>]

\* SharedFingerprint.add(part), part.file being the object reference
SharedFingerprintAdd(shared, part) ==
  LET parts == IF MapHas(shared.partMap, part.file)
               THEN MapGet(shared.partMap, part.file) ELSE <<>>
  IN  [shared EXCEPT !.partMap = MapSet(shared.partMap, part.file, Append(parts, part))]

\* SharedFingerprint.occurrencesOf(file)
occurrencesOf(shared, file) ==
  IF MapHas(shared.partMap, file) THEN MapGet(shared.partMap, file) ELSE <<>>

\* new FingerprintIndex(kgramLength, windowSize); frame holds the locals the
\* latest hashFilter.fingerprints() call left behind
NewFingerprintIndex(kgramLength, windowSize) ==
  [kgramLength |-> kgramLength,
   windowSize |-> windowSize,
   hashFilter |-> NewWinnowFilter(kgramLength, windowSize, TRUE),
   frame |-> NoFrame(NewWinnowFilter(kgramLength, windowSize, TRUE)),
   files |-> <<>>,
   index |-> <<>>]

\* file.regions[i], undefined (Null) outside the array
RegionAt(regions, i) == IF i + 1 \in DOMAIN regions THEN Some(regions[i + 1]) ELSE Null

\* The two regions addFiles merges into the location of a fingerprint, Null
\* when file.regions[start] is undefined and Region(0, 0, 0, 0) is used
LocationParts(regions, start, stop) ==
  IF RegionAt(regions, start) = Null THEN Null
  ELSE Some(<<RegionAt(regions, start)[1],
              IF RegionAt(regions, stop) # Null THEN RegionAt(regions, stop)[1]
              ELSE RegionAt(regions, start)[1]>>)

\* The body of the inner loop of addFiles for fingerprint fp of file object
\* ref; a holds the index, the entry of the file, the ordinal kgram and
\* whether an exception has left the call
AddFingerprint(a, ref, file, fp) ==
  IF a.raised THEN a
  ELSE IF RangeThrows(fp.start, fp.stop) THEN [a EXCEPT !.raised = TRUE]
  ELSE LET parts == LocationParts(file.regions, fp.start, fp.stop)
       IN  IF parts # Null /\ RegionMergeThrows(parts[1][1], parts[1][2])
           THEN [a EXCEPT !.raised = TRUE,
                          !.entry.kgrams = Append(@, NewRange(fp.start, fp.stop))]
           ELSE LET part == [file |-> ref,
                             side |-> [index |-> a.kgram,
                                       start |-> fp.start,
                                       stop |-> fp.stop,
                                       data |-> fp.data,
                                       location |->
                                         IF parts = Null THEN NewRegion(0, 0, 0, 0)
                                         ELSE RegionMerge(parts[1][1], parts[1][2])]]
                    shared == IF MapHas(a.index, fp.hash) THEN MapGet(a.index, fp.hash)
                              ELSE NewSharedFingerprint(fp.hash, fp.data)
                IN  [raised |-> FALSE,
                     index |-> MapSet(a.index, fp.hash, SharedFingerprintAdd(shared, part)),
                     entry |-> [file |-> ref,
                                kgrams |-> Append(a.entry.kgrams,
                                                  NewRange(fp.start, fp.stop)),
                                shared |-> JsSet(Append(a.entry.shared, fp.hash))],
                     kgram |-> a.kgram + 1]

RECURSIVE AddFingerprints(_, _, _, _, _)
AddFingerprints(a, ref, file, fps, j) ==
  IF j > Len(fps) THEN a
  ELSE AddFingerprints(AddFingerprint(a, ref, file, fps[j]), ref, file, fps, j + 1)

\* The body of the outer loop of addFiles for the file object ref; x is the
\* index object and whether an exception has left the call.  entry.shared
\* holds the hashes of the SharedFingerprint objects it refers to.
AddOneFile(x, objects, ref) ==
  IF x.raised THEN x
  ELSE LET file == objects[ref]
           frame == RunFingerprints(x.idx.frame, x.idx.hashFilter, file.tokens)
           a == AddFingerprints([raised |-> FALSE,
                                 index |-> x.idx.index,
                                 entry |-> [file |-> ref, kgrams |-> <<>>, shared |-> <<>>],
                                 kgram |-> 0],
                                ref, file, frame.fingerprints, 1)
       IN  [raised |-> a.raised,
            idx |-> [x.idx EXCEPT !.frame = frame,
                                  !.files = MapSet(x.idx.files, file.id, a.entry),
                                  !.index = a.index]]

RECURSIVE AddFilesFrom(_, _, _, _)
AddFilesFrom(x, objects, tokenizedFiles, j) ==
  IF j > Len(tokenizedFiles) THEN x
  ELSE AddFilesFrom(AddOneFile(x, objects, tokenizedFiles[j]), objects, tokenizedFiles, j + 1)

\* FingerprintIndex.addFiles(tokenizedFiles) on index object i, the files
\* given as references into objects: the index afterwards, and .raised
addFiles(i, objects, tokenizedFiles) ==
  AddFilesFrom([raised |-> FALSE, idx |-> i], objects, tokenizedFiles, 1)

\* Array.from(this.files.values()): the entries in registration order
Entries(i) == [j \in DOMAIN i.files |-> i.files[j][2]]

\* Pair.similarity: the Jaccard index of the two files' sets of fingerprint
\* hashes, 0 when both are empty
PairSimilarity(left, right) ==
  Jaccard(Len(Intersection(left.shared, right.shared)),
          UnionSize(left.shared, right.shared))

\* new Pair(left, right) for two entries of the files map
NewPair(left, right) ==
  [leftFile |-> left.file,
   rightFile |-> right.file,
   similarity |-> PairSimilarity(left, right)]

\* The two loops of allPairs, at outer index i and inner index j (from 0)
RECURSIVE PairsFrom(_, _, _, _)
PairsFrom(entries, i, j, acc) ==
  IF i >= Len(entries) THEN acc
  ELSE IF j >= Len(entries) THEN PairsFrom(entries, i + 1, i + 2, acc)
  ELSE PairsFrom(entries, i, j + 1,
                 Append(acc, NewPair(entries[i + 1], entries[j + 1])))

\* A sort that puts a pair before the pairs of equal similarity sorted so far
RECURSIVE InsertBySimilarityBeforeEqual(_, _)
InsertBySimilarityBeforeEqual(sorted, x) ==
  IF sorted = <<>> THEN <<x>>
  ELSE IF ~FracLeq(sorted[Len(sorted)].similarity, x.similarity)
       THEN Append(sorted, x)
       ELSE Append(InsertBySimilarityBeforeEqual(SubSeq(sorted, 1, Len(sorted) - 1), x),
                   sorted[Len(sorted)])

\* pairs.sort((a, b) => b.similarity - a.similarity), a stable sort: x goes
\* behind every pair a sorted so far with x.similarity - a.similarity <= 0
RECURSIVE InsertBySimilarity(_, _)
InsertBySimilarity(sorted, x) ==
  IF sorted = <<>> THEN <<x>>
  ELSE IF FracLeq(x.similarity, sorted[Len(sorted)].similarity)
       THEN Append(sorted, x)
       ELSE Append(InsertBySimilarity(SubSeq(sorted, 1, Len(sorted) - 1), x),
                   sorted[Len(sorted)])

RECURSIVE SortBySimilarityFrom(_, _, _)
SortBySimilarityFrom(array, j, acc) ==
  IF j > Len(array) THEN acc
  ELSE SortBySimilarityFrom(array, j + 1, InsertBySimilarity(acc, array[j]))

\* The value of the sortBy argument that asks for the sort
BySimilarity == "similarity"

\* FingerprintIndex.allPairs(sortBy) on index object i; sortBy is Null when
\* the argument is left out
allPairs(i, sortBy) ==
  IF sortBy = Some(BySimilarity)
  THEN SortBySimilarityFrom(PairsFrom(Entries(i), 0, 1, <<>>), 1, <<>>)
  ELSE PairsFrom(Entries(i), 0, 1, <<>>)

\* ------------------------------------------------------------------------
\* State
\* ------------------------------------------------------------------------
VARIABLES
  rh,       \* a RollingHash object being fed one token hash at a time
  fed,      \* the token hashes fed to rh so far, oldest first
  out,      \* the value returned by the latest rh.nextHash call
  wf,       \* a WinnowFilter object
  frame,    \* the locals the latest fingerprints() call on wf left behind
  tokensA,  \* a token stream
  tokensB,  \* a second token stream
  fpsA,     \* the result of wf.fingerprints(tokensA), Null before the call
  fpsB,     \* the result of wf.fingerprints(tokensB), Null before the call
  log,      \* the calls made on wf so far: <<tokens, result>>, oldest first
  det,      \* a PascalPlagiarismDetector object, Null before construction
  thrown,   \* whether the latest constructor call threw
  result,   \* what det.compareTwoFiles(tokensA, tokensB) returned, Null before
  nextId,   \* the static File.nextId
  objects,  \* the TokenizedFile objects created so far; an object's
            \* reference is its place in this sequence
  idx,      \* a FingerprintIndex object
  adds,     \* the number of addFiles calls made on idx
  pairs,    \* the latest idx.allPairs call: its sortBy argument and what it
            \* returned, Null before the call
  coordsA,  \* four numbers: startRow, startCol, endRow, endCol
  coordsB,  \* four more
  regionCall  \* the latest call of the Region constructor, Region.merge or
              \* overlapsWith on them and its outcome, Null before the call

rollVars == <<rh, fed, out>>
winnowVars == <<wf, frame, fpsA, fpsB, log>>
inputVars == <<tokensA, tokensB>>
detVars == <<det, thrown, result>>
idxVars == <<nextId, objects, idx, adds, pairs>>
regionVars == <<coordsA, coordsB, regionCall>>
vars == <<rollVars, winnowVars, inputVars, detVars, idxVars, regionVars>>

\* The parts of the state a specification does not use stay as constructed.
RollIdle == rh = NewRollingHash(1) /\ fed = <<>> /\ out = 0
WinnowIdle ==
  /\ wf = NewWinnowFilter(1, 1, FALSE)
  /\ frame = NoFrame(wf)
  /\ fpsA = Null /\ fpsB = Null
  /\ log = <<>>
InputIdle == tokensA = <<>> /\ tokensB = <<>>
RegionIdle ==
  coordsA = <<0, 0, 0, 0>> /\ coordsB = <<0, 0, 0, 0>> /\ regionCall = Null
DetIdle == det = Null /\ thrown = FALSE /\ result = Null
IdxIdle ==
  /\ nextId = 0 /\ objects = <<>> /\ idx = NewFingerprintIndex(1, 1)
  /\ adds = 0 /\ pairs = Null

\* ------------------------------------------------------------------------
\* Rolling hash fed one value at a time
\* ------------------------------------------------------------------------
\* Token hashes fed to the rolling hash: the extremes of [0, MOD) and the
\* hashes of two tokens.
HashInputs == {0, MOD - 1, hashToken(TokID), hashToken(TokIF)}

InitRoll ==
  /\ \E k \in 1..MaxRollK : rh = NewRollingHash(k)
  /\ fed = <<>>
  /\ out = 0
  /\ RegionIdle /\ WinnowIdle /\ InputIdle /\ DetIdle /\ IdxIdle

FeedNextHash ==
  /\ Len(fed) < MaxFeed
  /\ \E h \in HashInputs :
       /\ rh' = nextHash(rh, h)
       /\ fed' = Append(fed, h)
       /\ out' = rh'.hash
  /\ UNCHANGED <<regionVars, winnowVars, inputVars, detVars, idxVars>>

NextRoll == FeedNextHash

SpecRoll == InitRoll /\ [][NextRoll]_vars

\* ------------------------------------------------------------------------
\* TokenHash and RollingHash on the extremes of their inputs
\* ------------------------------------------------------------------------
\* Tokens of character codes 0 and 65535, the least and the largest value
\* charCodeAt returns
ArithTokens == UNION {[1..m -> {0, 65535}] : m \in 1..MaxArithTokenLen}

InitArith ==
  /\ \E k \in 1..MaxRollK : rh = NewRollingHash(k)
  /\ fed = <<>>
  /\ out = 0
  /\ RegionIdle /\ WinnowIdle /\ InputIdle /\ DetIdle /\ IdxIdle

\* hash.nextHash(hasher.hashToken(token)); tokensA keeps the tokens hashed
HashAndFeed ==
  /\ Len(fed) < MaxArithFeed
  /\ \E token \in ArithTokens :
       /\ rh' = nextHash(rh, hashToken(token))
       /\ fed' = Append(fed, hashToken(token))
       /\ tokensA' = Append(tokensA, token)
       /\ out' = rh'.hash
  /\ UNCHANGED <<regionVars, winnowVars, detVars, idxVars, tokensB>>

\* hash.nextHash(h) for h the least or the largest token hash
FeedExtreme ==
  /\ Len(fed) < MaxArithFeed
  /\ \E h \in {0, MOD - 1} :
       /\ rh' = nextHash(rh, h)
       /\ fed' = Append(fed, h)
       /\ out' = rh'.hash
  /\ UNCHANGED <<regionVars, winnowVars, inputVars, detVars, idxVars>>

NextArith == HashAndFeed \/ FeedExtreme

SpecArith == InitArith /\ [][NextArith]_vars

\* ------------------------------------------------------------------------
\* WinnowFilter.fingerprints on token streams
\* ------------------------------------------------------------------------
\* wf.fingerprints(tokensA)
FingerprintsA ==
  /\ fpsA = Null
  /\ frame' = RunFingerprints(frame, wf, tokensA)
  /\ fpsA' = Some(frame'.fingerprints)
  /\ UNCHANGED <<regionVars, rollVars, inputVars, detVars, idxVars, wf, fpsB, log>>

\* wf.fingerprints(tokensB)
FingerprintsB ==
  /\ fpsB = Null
  /\ frame' = RunFingerprints(frame, wf, tokensB)
  /\ fpsB' = Some(frame'.fingerprints)
  /\ UNCHANGED <<regionVars, rollVars, inputVars, detVars, idxVars, wf, fpsA, log>>

\* One stream through a filter of any k, w and kgramData
InitWinnow ==
  /\ RegionIdle /\ RollIdle /\ DetIdle /\ IdxIdle
  /\ \E k \in 1..MaxK, w \in 1..MaxW, d \in BOOLEAN : wf = NewWinnowFilter(k, w, d)
  /\ frame = NoFrame(wf)
  /\ tokensA \in Streams(MaxLen)
  /\ tokensB = <<>>
  /\ fpsA = Null /\ fpsB = Null
  /\ log = <<>>

NextWinnow == FingerprintsA

SpecWinnow == InitWinnow /\ [][NextWinnow]_vars

\* Two streams through the same filter, in either order
InitShared ==
  /\ RegionIdle /\ RollIdle /\ DetIdle /\ IdxIdle
  /\ \E k \in 1..MaxK, w \in 1..MaxW : wf = NewWinnowFilter(k, w, FALSE)
  /\ frame = NoFrame(wf)
  /\ tokensA \in ShortStreams(MaxPairLen)
  /\ tokensB \in ShortStreams(MaxPairLen)
  /\ fpsA = Null /\ fpsB = Null
  /\ log = <<>>

NextShared == FingerprintsA \/ FingerprintsB

SpecShared == InitShared /\ [][NextShared]_vars

\* Any streams, one call after the other, through the filter a
\* FingerprintIndex holds (kgramData = true)
HistStreams == ShortStreams(MaxHistLen)

InitHistory ==
  /\ RegionIdle /\ RollIdle /\ DetIdle /\ IdxIdle
  /\ \E k \in 1..MaxHistK, w \in 1..MaxHistW : wf = NewWinnowFilter(k, w, TRUE)
  /\ frame = NoFrame(wf)
  /\ tokensA = <<>> /\ tokensB = <<>>
  /\ fpsA = Null /\ fpsB = Null
  /\ log = <<>>

\* wf.fingerprints(t) for a stream t of the caller's choice
FingerprintsCall ==
  /\ Len(log) < MaxCalls
  /\ \E t \in HistStreams :
       /\ frame' = RunFingerprints(frame, wf, t)
       /\ log' = Append(log, <<t, frame'.fingerprints>>)
  /\ UNCHANGED <<regionVars, rollVars, inputVars, detVars, idxVars, wf, fpsA, fpsB>>

NextHistory == FingerprintsCall

SpecHistory == InitHistory /\ [][NextHistory]_vars

\* ------------------------------------------------------------------------
\* PascalPlagiarismDetector.compareTwoFiles on two token streams
\* ------------------------------------------------------------------------
InitCompare ==
  /\ RegionIdle /\ RollIdle /\ WinnowIdle /\ DetIdle /\ IdxIdle
  /\ tokensA \in ShortStreams(MaxCmpLen)
  /\ tokensB \in ShortStreams(MaxCmpLen)

\* new PascalPlagiarismDetector(k, w)
ConstructDetectorCall(k, w) ==
  /\ det = Null
  /\ ~thrown
  /\ IF DetectorThrows(k, w)
     THEN thrown' = TRUE /\ det' = Null
     ELSE thrown' = FALSE /\ det' = Some(NewDetector(k, w))
  /\ UNCHANGED <<regionVars, rollVars, winnowVars, inputVars, idxVars, result>>

ConstructDetector == \E k \in 1..MaxDetK, w \in 1..MaxDetW : ConstructDetectorCall(k, w)

\* det.compareTwoFiles(tokensA, tokensB)
CompareTwoFiles ==
  /\ det # Null
  /\ result = Null
  /\ result' = Some(compareTwoFiles(det[1], tokensA, tokensB))
  /\ UNCHANGED <<regionVars, rollVars, winnowVars, inputVars, idxVars, det, thrown>>

NextCompare == ConstructDetector \/ CompareTwoFiles

SpecCompare == InitCompare /\ [][NextCompare]_vars

\* ------------------------------------------------------------------------
\* compareTwoFiles on the end-to-end scenarios
\* ------------------------------------------------------------------------
\* Scenario 1: the token stream of both files
Scenario1 ==
  <<TokPROGRAM, TokID, TokSemi, TokBEGIN, TokWRITE, TokID, TokEND, TokDOT>>

\* Scenario 3: the 5-token run both files hold, and the tokens around it in
\* file A and in file B
Run == <<TokBEGIN, TokWRITE, TokID, TokEND, TokDOT>>
SurroundA == {TokPROGRAM, TokSemi}
SurroundB == {TokIF, TokSEMI}
Surrounds(alphabet) == UNION {[1..m -> alphabet] : m \in 1..MaxSurround}
Embedded(alphabet) ==
  {p \o Run \o q : p \in Surrounds(alphabet), q \in Surrounds(alphabet)}

\* A file that holds a stretch of tokens twice, a ';' between the two
Repeats == {t \o <<TokSEMI>> \o t : t \in ShortStreams(MaxRepeat)}

\* The kgramSize and windowSize of the scenarios: (3, 2) for scenario 1,
\* (3, 4) for scenario 3, (2, 2) for the repeated stretch
ScenarioParams == {<<3, 2>>, <<3, 4>>, <<2, 2>>}

InitScenario ==
  /\ RegionIdle /\ RollIdle /\ WinnowIdle /\ DetIdle /\ IdxIdle
  /\ \/ tokensA = Scenario1 /\ tokensB = Scenario1
     \/ tokensA \in Embedded(SurroundA) /\ tokensB \in Embedded(SurroundB)
     \/ tokensA \in ShortStreams(MaxRepeat) /\ tokensB \in Repeats

\* new PascalPlagiarismDetector(k, w) with the parameters of a scenario
ConstructScenarioDetector ==
  \E params \in ScenarioParams : ConstructDetectorCall(params[1], params[2])

NextScenario == ConstructScenarioDetector \/ CompareTwoFiles

SpecScenario == InitScenario /\ [][NextScenario]_vars

\* ------------------------------------------------------------------------
\* Region: the constructor, Region.merge and overlapsWith
\* ------------------------------------------------------------------------
\* The coordinates the calls are made on; (5,0,3,0) and (2,0,2,5) among them
Coords ==
  {<<a, b, c, d>> : a \in 0..MaxRow, b \in 0..MaxCol, c \in 0..MaxRow, d \in 0..MaxCol}
    \cup {<<5, 0, 3, 0>>, <<2, 0, 2, 5>>}

InitRegion ==
  /\ RollIdle /\ WinnowIdle /\ InputIdle /\ DetIdle /\ IdxIdle
  /\ coordsA \in Coords
  /\ coordsB \in Coords
  /\ regionCall = Null

\* new Region(c[1], c[2], c[3], c[4]), when it returns
RegionOf(c) == NewRegion(c[1], c[2], c[3], c[4])

\* new Region(...) on the one or the other four coordinates
ConstructRegion ==
  /\ \E c \in {coordsA, coordsB} :
       regionCall' = Some([op |-> "new",
                           args |-> c,
                           raised |-> RegionThrows(c[1], c[2], c[3], c[4]),
                           value |-> IF RegionThrows(c[1], c[2], c[3], c[4]) THEN Null
                                     ELSE Some(RegionOf(c))])
  /\ UNCHANGED <<rollVars, winnowVars, inputVars, detVars, idxVars, coordsA, coordsB>>

\* Region.merge(a, b) on the Region objects of the two coordinates
MergeRegions ==
  /\ ~RegionThrows(coordsA[1], coordsA[2], coordsA[3], coordsA[4])
  /\ ~RegionThrows(coordsB[1], coordsB[2], coordsB[3], coordsB[4])
  /\ regionCall' = Some([op |-> "merge",
                         args |-> <<coordsA, coordsB>>,
                         raised |-> RegionMergeThrows(RegionOf(coordsA), RegionOf(coordsB)),
                         value |-> IF RegionMergeThrows(RegionOf(coordsA), RegionOf(coordsB))
                                   THEN Null
                                   ELSE Some(RegionMerge(RegionOf(coordsA),
                                                         RegionOf(coordsB)))])
  /\ UNCHANGED <<rollVars, winnowVars, inputVars, detVars, idxVars, coordsA, coordsB>>

\* a.overlapsWith(b) on the Region objects of the two coordinates
OverlapsWith ==
  /\ ~RegionThrows(coordsA[1], coordsA[2], coordsA[3], coordsA[4])
  /\ ~RegionThrows(coordsB[1], coordsB[2], coordsB[3], coordsB[4])
  /\ regionCall' = Some([op |-> "overlapsWith",
                         args |-> <<coordsA, coordsB>>,
                         raised |-> FALSE,
                         value |-> Some(overlapsWith(RegionOf(coordsA), RegionOf(coordsB)))])
  /\ UNCHANGED <<rollVars, winnowVars, inputVars, detVars, idxVars, coordsA, coordsB>>

NextRegion == ConstructRegion \/ MergeRegions \/ OverlapsWith

SpecRegion == InitRegion /\ [][NextRegion]_vars

\* ------------------------------------------------------------------------
\* Constructors called with any kgram size and window size
\* ------------------------------------------------------------------------
CtorArgs == (0 - MaxBelow)..MaxCtorArg

InitConstruct ==
  /\ RegionIdle /\ RollIdle /\ WinnowIdle /\ InputIdle /\ DetIdle /\ IdxIdle

\* new WinnowFilter(k, windowSize, kgramData): three assignments
ConstructWinnowFilter ==
  /\ \E k \in CtorArgs, w \in CtorArgs, d \in BOOLEAN :
       /\ wf' = NewWinnowFilter(k, w, d)
       /\ frame' = NoFrame(wf')
  /\ thrown' = FALSE
  /\ UNCHANGED <<regionVars, rollVars, inputVars, idxVars, det, result, fpsA, fpsB, log>>

\* new FingerprintIndex(kgramLength, windowSize)
ConstructFingerprintIndex ==
  /\ \E k \in CtorArgs, w \in CtorArgs : idx' = NewFingerprintIndex(k, w)
  /\ thrown' = FALSE
  /\ UNCHANGED <<regionVars, rollVars, winnowVars, inputVars, det, result, nextId, objects, adds, pairs>>

\* new PascalPlagiarismDetector(kgramSize, windowSize)
ConstructAnyDetector ==
  /\ \E k \in CtorArgs, w \in CtorArgs :
       IF DetectorThrows(k, w)
       THEN thrown' = TRUE /\ det' = det
       ELSE thrown' = FALSE /\ det' = Some(NewDetector(k, w))
  /\ UNCHANGED <<regionVars, rollVars, winnowVars, inputVars, idxVars, result>>

NextConstruct == ConstructWinnowFilter \/ ConstructFingerprintIndex \/ ConstructAnyDetector

SpecConstruct == InitConstruct /\ [][NextConstruct]_vars

\* ------------------------------------------------------------------------
\* FingerprintIndex.addFiles on TokenizedFile objects
\* ------------------------------------------------------------------------
\* The files of a corpus are stretches of at most MaxIdxLen tokens of one text
Corpus == <<TokID, TokSEMI, TokID, TokID, TokSEMI>>
IdxStreams ==
  {t \in ShortStreams(MaxIdxLen) :
     \E s \in 0..(Len(Corpus) - Len(t)) : \A j \in 1..Len(t) : Corpus[s + j] = t[j]}

InitIndex ==
  /\ RegionIdle /\ RollIdle /\ WinnowIdle /\ InputIdle /\ DetIdle
  /\ nextId = 0
  /\ objects = <<>>
  /\ \E k \in 1..MaxIdxK, w \in 1..MaxIdxW : idx = NewFingerprintIndex(k, w)
  /\ adds = 0
  /\ pairs = Null

\* PascalTokenizationService.tokenizeFile: new File(path, source), then
\* new TokenizedFile(file, fileRegion, tokens, regions)
TokenizeFile ==
  /\ Len(objects) < MaxFiles
  /\ \E tokens \in IdxStreams :
       LET file == FileConstructor(nextId, Null)
           made == TokenizedFileConstructor(file.nextId, file, tokens, TokenRegions(tokens))
       IN  /\ objects' = Append(objects, made.object)
           /\ nextId' = made.nextId
  /\ UNCHANGED <<regionVars, rollVars, winnowVars, inputVars, detVars, idx, adds, pairs>>

\* idx.addFiles(tokenizedFiles) for the list tokenizedFiles of object
\* references; an exception leaves the index as it is at the throw
AddFilesCall(tokenizedFiles) ==
  /\ adds < MaxAdds
  /\ idx' = addFiles(idx, objects, tokenizedFiles).idx
  /\ thrown' = addFiles(idx, objects, tokenizedFiles).raised
  /\ adds' = adds + 1
  /\ UNCHANGED <<regionVars, rollVars, winnowVars, inputVars, det, result, nextId, objects, pairs>>

\* The lists addFiles is called with: no file, one file, or every file made
\* so far in the order of their making
Batches ==
  {<<>>} \cup {<<ref>> : ref \in DOMAIN objects} \cup {[j \in DOMAIN objects |-> j]}

AddFiles == \E tokenizedFiles \in Batches : AddFilesCall(tokenizedFiles)

NextIndex == TokenizeFile \/ AddFiles

SpecIndex == InitIndex /\ [][NextIndex]_vars

\* ------------------------------------------------------------------------
\* addFiles on TokenizedFile objects, some built from the same file
\* ------------------------------------------------------------------------
\* new TokenizedFile(file, fileRegion, tokens, regions) for a file tokenized
\* before: the new object has the id of that file
TokenizeAgain ==
  /\ adds = 0
  /\ Len(objects) < MaxFiles
  /\ \E ref \in DOMAIN objects, tokens \in IdxStreams :
       LET made == TokenizedFileConstructor(nextId, objects[ref], tokens,
                                            TokenRegions(tokens))
       IN  /\ objects' = Append(objects, made.object)
           /\ nextId' = made.nextId
  /\ UNCHANGED <<regionVars, rollVars, winnowVars, inputVars, detVars, idx, adds, pairs>>

\* tokenizeFile on a new file, before the index is filled
TokenizeNew == adds = 0 /\ TokenizeFile

\* idx.addFiles on every object made, in the order of their making
AddEveryFile == AddFilesCall([j \in DOMAIN objects |-> j])

NextReindex == TokenizeNew \/ TokenizeAgain \/ AddEveryFile

SpecReindex == InitIndex /\ [][NextReindex]_vars

\* ------------------------------------------------------------------------
\* File and TokenizedFile constructions
\* ------------------------------------------------------------------------
InitFiles ==
  /\ RegionIdle /\ RollIdle /\ WinnowIdle /\ InputIdle /\ DetIdle /\ IdxIdle

\* The id argument of new File(path, content, extra, id): absent or a number
IdArgs == {Null} \cup {Some(n) : n \in 0..MaxExplicitId}

\* new File(path, content, extra, idArg)
ConstructFileCall(idArg) ==
  /\ Len(objects) < MaxObjects
  /\ objects' = Append(objects, [id |-> FileConstructor(nextId, idArg).id])
  /\ nextId' = FileConstructor(nextId, idArg).nextId
  /\ UNCHANGED <<regionVars, rollVars, winnowVars, inputVars, detVars, idx, adds, pairs>>

ConstructFile == \E idArg \in IdArgs : ConstructFileCall(idArg)

\* new TokenizedFile(file, fileRegion, tokens, regions) on a file made before
ConstructTokenizedFile ==
  /\ Len(objects) < MaxObjects
  /\ \E ref \in DOMAIN objects, tokens \in IdxStreams :
       LET made == TokenizedFileConstructor(nextId, objects[ref], tokens,
                                            TokenRegions(tokens))
       IN  /\ objects' = Append(objects, made.object)
           /\ nextId' = made.nextId
  /\ UNCHANGED <<regionVars, rollVars, winnowVars, inputVars, detVars, idx, adds, pairs>>

NextFiles == ConstructFile \/ ConstructTokenizedFile

SpecFiles == InitFiles /\ [][NextFiles]_vars

\* ------------------------------------------------------------------------
\* A corpus: files tokenized, indexed in one addFiles call, then paired
\* ------------------------------------------------------------------------
InitCorpus ==
  /\ RegionIdle /\ RollIdle /\ WinnowIdle /\ InputIdle /\ DetIdle
  /\ nextId = 0
  /\ objects = <<>>
  /\ \E k \in 1..MaxIdxK, w \in 1..MaxIdxW : idx = NewFingerprintIndex(k, w)
  /\ adds = 0
  /\ pairs = Null

\* The loop body of PlagiarismDetector.analyzeFiles: tokenizeFile and
\* tokenizedFiles.push
TokenizeCorpusFile ==
  /\ adds = 0
  /\ Len(objects) < MaxCorpusFiles
  /\ \E tokens \in IdxStreams :
       LET file == FileConstructor(nextId, Null)
           made == TokenizedFileConstructor(file.nextId, file, tokens, TokenRegions(tokens))
       IN  /\ objects' = Append(objects, made.object)
           /\ nextId' = made.nextId
  /\ UNCHANGED <<regionVars, rollVars, winnowVars, inputVars, detVars, idx, adds, pairs>>

\* fingerprintIndex.addFiles(tokenizedFiles) with every file tokenized
BuildIndex ==
  /\ adds = 0
  /\ idx' = addFiles(idx, objects, [j \in DOMAIN objects |-> j]).idx
  /\ thrown' = addFiles(idx, objects, [j \in DOMAIN objects |-> j]).raised
  /\ adds' = adds + 1
  /\ UNCHANGED <<regionVars, rollVars, winnowVars, inputVars, det, result, nextId, objects, pairs>>

\* fingerprintIndex.allPairs(sortBy) on the index built
AllPairs ==
  /\ adds > 0
  /\ \E sortBy \in {Null, Some(BySimilarity)} :
       pairs' = Some([sortBy |-> sortBy, pairs |-> allPairs(idx, sortBy)])
  /\ UNCHANGED <<regionVars, rollVars, winnowVars, inputVars, detVars, nextId, objects, idx, adds>>

NextCorpus == TokenizeCorpusFile \/ BuildIndex \/ AllPairs

SpecCorpus == InitCorpus /\ [][NextCorpus]_vars

\* ------------------------------------------------------------------------
\* Reference: the k-gram hash from scratch, with no incremental state
\* ------------------------------------------------------------------------
RECURSIVE PowNaive(_)
PowNaive(j) == IF j = 0 THEN 1 ELSE MulMod(PowNaive(j - 1), ROLL_BASE)

\* (sum over j in 0..k-1 of s[Len(s) - j] * BASE^j) mod MOD
RECURSIVE RefSum(_, _, _)
RefSum(s, k, j) ==
  IF j = k THEN 0
  ELSE (MulMod(s[Len(s) - j], PowNaive(j)) + RefSum(s, k, j + 1)) % MOD

KGramHash(s, k) == RefSum(s, k, 0)

\* The hash of the k-gram of tokens that starts at 0-based index start
TokenKGramHash(tokens, start, k) ==
  KGramHash([j \in 1..k |-> hashToken(tokens[start + j])], k)

\* The 0-based start indexes of the k-grams of a stream
KGramStarts(tokens, k) == 0..(Len(tokens) - k)

\* ------------------------------------------------------------------------
\* Claims
\* ------------------------------------------------------------------------
\* C2: once at least k token hashes have been fed to a fresh RollingHash(k),
\* the value nextHash returned last is the from-scratch hash of the k most
\* recent inputs, whatever was fed before them.
C2_RollingEquivalence ==
  Len(fed) >= rh.k => out = KGramHash(fed, rh.k)

\* C2 witness: a window of length 3 from which two non-zero inputs have
\* already been evicted.
C2_Witness ==
  /\ rh.k = 3
  /\ Len(fed) = 5
  /\ fed[1] # 0
  /\ fed[2] # 0
  /\ out = KGramHash(fed, 3)

\* Streams A and B contain the same contiguous run of n tokens
ShareRun(A, B, n) ==
  \E a \in 0..(Len(A) - n), b \in 0..(Len(B) - n) :
    \A j \in 1..n : A[a + j] = B[b + j]

HashesOf(fps) == {fps[j].hash : j \in DOMAIN fps}

\* C1: when both streams contain the same run of at least k + w - 1 tokens,
\* the two fingerprint lists have a hash in common.
C1_WinnowingGuarantee ==
  (/\ fpsA # Null /\ fpsB # Null
   /\ ShareRun(tokensA, tokensB, wf.k + wf.windowSize - 1))
  => HashesOf(fpsA[1]) \cap HashesOf(fpsB[1]) # {}

\* C1 witness: two different streams, neither a prefix of the other, that
\* share a run of exactly k + w - 1 tokens, with k and w above 1.
C1_Witness ==
  /\ fpsA # Null /\ fpsB # Null
  /\ wf.k = 2 /\ wf.windowSize = 2
  /\ Len(tokensA) = 4 /\ Len(tokensB) = 4
  /\ tokensA[1] # tokensB[1]
  /\ ShareRun(tokensA, tokensB, 3)
  /\ ~ShareRun(tokensA, tokensB, 4)
  /\ HashesOf(fpsA[1]) \cap HashesOf(fpsB[1]) # {}

\* C3: every fingerprint returned lies inside the stream, spans exactly k
\* tokens, carries the from-scratch hash of those k tokens, and, when the
\* filter keeps k-gram data, carries those k tokens.
FingerprintOk(fp, tokens) ==
  /\ 0 <= fp.start
  /\ fp.stop = fp.start + wf.k - 1
  /\ fp.stop < Len(tokens)
  /\ fp.hash = TokenKGramHash(tokens, fp.start, wf.k)
  /\ fp.hash # MAX_SAFE_INTEGER
  /\ wf.kgramData => fp.data = Some([j \in 1..wf.k |-> tokens[fp.start + j]])
  /\ ~wf.kgramData => fp.data = Null

C3_FingerprintSpan ==
  fpsA # Null => \A j \in DOMAIN fpsA[1] : FingerprintOk(fpsA[1][j], tokensA)

\* C3 witness: a call with k-gram data that emitted both by a new minimum
\* and by a re-scan after the minimum left a window of 3, the last
\* fingerprint not being the newest k-gram.
C3_Witness ==
  /\ fpsA # Null
  /\ wf.kgramData
  /\ wf.k = 2 /\ wf.windowSize = 3
  /\ Len(tokensA) = MaxLen
  /\ Len(fpsA[1]) >= 3
  /\ fpsA[1][Len(fpsA[1])].stop < Len(tokensA) - 1
  /\ frame.filePos - fpsA[1][Len(fpsA[1])].start < wf.windowSize
  /\ \E j \in DOMAIN fpsA[1] : j > 1 /\ fpsA[1][j].hash > fpsA[1][j - 1].hash

\* C4: a call returns what the first call with the same stream returned on
\* this filter, and what a filter that was never used returns.
C4_HistoryFree ==
  /\ log # <<>> => log[Len(log)][2] = fingerprints(wf, log[Len(log)][1])
  /\ \A i, j \in DOMAIN log : log[j][1] = log[i][1] => log[j][2] = log[i][2]

\* C4 witness: the same stream fingerprinted first on the new filter and
\* again after a different stream, with fingerprints both times.
C4_Witness ==
  /\ Len(log) = MaxCalls
  /\ wf.k = 2
  /\ log[1][1] # log[MaxCalls][1]
  /\ Len(log[1][2]) >= 1
  /\ Len(log[MaxCalls][2]) >= 2

\* The set of distinct fingerprint hashes winnowing gives a stream under the
\* detector's k and w
H(tokens) == HashesOf(fingerprints(det[1].winnowFilter, tokens))

\* The k-grams of a stream, as token sequences
KGramsOf(tokens, k) ==
  {[j \in 1..k |-> tokens[s + j]] : s \in KGramStarts(tokens, k)}

\* C5: the similarity is the Jaccard index of the two sets of distinct
\* fingerprint hashes, 0 when both are empty, always within [0, 1], and
\* sharedFingerprints is the size of their intersection.
C5_JaccardOverHashSets ==
  result # Null =>
    LET r == result[1]
        I == H(tokensA) \cap H(tokensB)
        U == H(tokensA) \cup H(tokensB)
    IN  /\ ~r.raised
        /\ r.similarity = IF U = {} THEN FracZero
                          ELSE Frac(Cardinality(I), Cardinality(U))
        /\ FracLeq(FracZero, r.similarity) /\ FracLeq(r.similarity, FracOne)
        /\ r.similarity[2] > 0
        /\ r.sharedFingerprints = Cardinality(I)

\* C5 witness: file A repeats a fingerprint hash, the two files share some
\* hashes but not all, and the similarity is strictly between 0 and 1.
C5_Witness ==
  /\ result # Null
  /\ ~result[1].raised
  /\ Len(fingerprints(det[1].winnowFilter, tokensA)) > Cardinality(H(tokensA))
  /\ H(tokensA) \cap H(tokensB) # {}
  /\ H(tokensA) \ H(tokensB) # {}
  /\ result[1].similarity # FracZero
  /\ result[1].similarity # FracOne

\* C6: comparing in the other order gives the same similarity and the same
\* number of shared fingerprints.
C6_SimilaritySymmetric ==
  result # Null =>
    LET swapped == compareTwoFiles(det[1], tokensB, tokensA)
    IN  /\ ~result[1].raised /\ ~swapped.raised
        /\ result[1].similarity = swapped.similarity
        /\ result[1].sharedFingerprints = swapped.sharedFingerprints

\* C6 witness: two files of different lengths that share part of their
\* hashes, each with a different share of its own hashes in common.
C6_Witness ==
  /\ result # Null
  /\ ~result[1].raised
  /\ Len(tokensA) # Len(tokensB)
  /\ result[1].similarity # FracZero
  /\ result[1].similarity # FracOne
  /\ result[1].overlapSimilarity1 # result[1].overlapSimilarity2

\* C7: a file of at least k tokens compared with itself has similarity 1.
C7_SelfSimilarity ==
  (result # Null /\ tokensA = tokensB /\ Len(tokensA) >= det[1].kgramSize)
  => (~result[1].raised /\ result[1].similarity = FracOne)

\* C7 witness: a file with several distinct fingerprints compared with
\* itself, k = 2.
C7_Witness ==
  /\ result # Null
  /\ tokensA = tokensB
  /\ det[1].kgramSize = 2
  /\ Cardinality(H(tokensA)) >= 2
  /\ result[1].similarity = FracOne

\* C8: when the two files share no fingerprint hash, as when one of them is
\* shorter than k tokens, the call returns similarity 0, no shared
\* fingerprint and no shared region, and does not raise.
C8_NothingShared ==
  (/\ result # Null
   /\ \/ H(tokensA) \cap H(tokensB) = {}
      \/ Len(tokensA) < det[1].kgramSize
      \/ Len(tokensB) < det[1].kgramSize)
  => /\ ~result[1].raised
     /\ result[1].similarity = FracZero
     /\ result[1].sharedFingerprints = 0
     /\ result[1].sharedRegions = <<>>

\* C8 witness: two files, each with fingerprints, that have no k-gram in
\* common.
C8_Witness ==
  /\ result # Null
  /\ det[1].kgramSize = 2
  /\ H(tokensA) # {} /\ H(tokensB) # {}
  /\ KGramsOf(tokensA, det[1].kgramSize) \cap KGramsOf(tokensB, det[1].kgramSize) = {}
  /\ result[1].similarity = FracZero
  /\ result[1].sharedRegions = <<>>

\* The object references registered in the index: those the files map holds
Registered == {idx.files[j][2].file : j \in DOMAIN idx.files}

\* The entry the files map holds for the registered object ref
EntryOf(ref) == idx.files[CHOOSE j \in DOMAIN idx.files : idx.files[j][2].file = ref][2]

\* Fingerprint number j (from 1) of the registered object ref is traceable:
\* one SharedFingerprint for its hash, an occurrence of ref there with its
\* start, stop and ordinal, and the SharedFingerprint in ref's shared set
Traceable(ref, fps, j) ==
  /\ Cardinality({n \in DOMAIN idx.index : idx.index[n][1] = fps[j].hash}) = 1
  /\ \E n \in DOMAIN occurrencesOf(MapGet(idx.index, fps[j].hash), ref) :
       LET part == occurrencesOf(MapGet(idx.index, fps[j].hash), ref)[n]
       IN  /\ part.file = ref
           /\ part.side.start = fps[j].start
           /\ part.side.stop = fps[j].stop
           /\ part.side.index = j - 1
  /\ JsSetHas(EntryOf(ref).shared, fps[j].hash)

\* C9: after any sequence of addFiles calls every fingerprint winnowing
\* produces for a registered file is traceable in the index.
C9_IndexTraceability ==
  \A ref \in Registered :
    \A j \in DOMAIN fingerprints(idx.hashFilter, objects[ref].tokens) :
      Traceable(ref, fingerprints(idx.hashFilter, objects[ref].tokens), j)

\* C10: an addFiles call with one file that is already registered leaves
\* the registered files and every occurrence list as they were.
C10_DuplicateAddNoOp ==
  [][\A ref \in Registered :
       AddFilesCall(<<ref>>) => (idx'.files = idx.files /\ idx'.index = idx.index)]_vars

\* The place (from 1) in registration order of the registered object ref
RegistrationPlace(ref) == CHOOSE j \in DOMAIN idx.files : idx.files[j][2].file = ref

\* Pair p comes before pair q in generation order: outer index ascending,
\* then inner index ascending
GeneratedBefore(p, q) ==
  \/ RegistrationPlace(p.leftFile) < RegistrationPlace(q.leftFile)
  \/ /\ RegistrationPlace(p.leftFile) = RegistrationPlace(q.leftFile)
     /\ RegistrationPlace(p.rightFile) < RegistrationPlace(q.rightFile)

\* C11: allPairs returns every unordered pair of distinct registered files
\* exactly once, n*(n-1)/2 pairs and none of a file with itself, in
\* generation order; with sortBy 'similarity' in non-increasing similarity
\* order, pairs of equal similarity in generation order.
C11_AllPairs ==
  pairs # Null =>
    LET ps == pairs[1].pairs
        n == Len(idx.files)
    IN  /\ 2 * Len(ps) = n * (n - 1)
        /\ \A p \in DOMAIN ps :
             /\ ps[p].leftFile # ps[p].rightFile
             /\ {ps[p].leftFile, ps[p].rightFile} \subseteq Registered
        /\ \A a, b \in Registered :
             a # b => Cardinality({p \in DOMAIN ps :
                                     {ps[p].leftFile, ps[p].rightFile} = {a, b}}) = 1
        /\ \A p, q \in DOMAIN ps :
             p < q =>
               IF pairs[1].sortBy = Some(BySimilarity)
               THEN /\ FracLeq(ps[q].similarity, ps[p].similarity)
                    /\ ps[q].similarity = ps[p].similarity => GeneratedBefore(ps[p], ps[q])
               ELSE GeneratedBefore(ps[p], ps[q])

\* C11 witness: three registered files paired with the sort asked for; the
\* sort has moved a pair forward and has left two equal pairs in place.
C11_Witness ==
  /\ pairs # Null
  /\ pairs[1].sortBy = Some(BySimilarity)
  /\ Len(idx.files) = MaxCorpusFiles
  /\ pairs[1].pairs # allPairs(idx, Null)
  /\ \E p, q \in DOMAIN pairs[1].pairs :
       p < q /\ pairs[1].pairs[p].similarity = pairs[1].pairs[q].similarity

\* C12: for every k >= 1 and w >= 1 and every list of files with as many
\* regions as tokens, addFiles completes without raising.
C12_IndexingNeverAborts == adds > 0 => thrown = FALSE

\* C13: no two distinct regions of the sharedRegions list compareTwoFiles
\* returns have overlapping file-A token ranges.
C13_RegionsDisjoint ==
  (result # Null /\ ~result[1].raised) =>
    \A r, s \in DOMAIN result[1].sharedRegions :
      r # s => \/ result[1].sharedRegions[r].file1Range.end
                    < result[1].sharedRegions[s].file1Range.start
               \/ result[1].sharedRegions[s].file1Range.end
                    < result[1].sharedRegions[r].file1Range.start

\* C14: every region compareTwoFiles returns carries as sharedTokens exactly
\* the file-A tokens its file1Range covers, each once.
C14_SharedTokensCovered ==
  (result # Null /\ ~result[1].raised) =>
    \A r \in DOMAIN result[1].sharedRegions :
      LET region == result[1].sharedRegions[r]
      IN  /\ region.sharedTokens
               = JsSlice(tokensA, region.file1Range.start, region.file1Range.end + 1)
          /\ Len(region.sharedTokens)
               = region.file1Range.end - region.file1Range.start + 1

\* C16: comparing two files that both hold the token stream of scenario 1,
\* with k = 3 and w = 2, gives similarity 1 and one shared region, over
\* tokens 0..7 of both files, of type EXACT.
C16_Scenario1 ==
  /\ [][(tokensA = Scenario1 /\ tokensB = Scenario1 /\ ConstructDetectorCall(3, 2))
          => ~thrown']_vars
  /\ []((/\ tokensA = Scenario1 /\ tokensB = Scenario1
         /\ result # Null /\ det[1].kgramSize = 3 /\ det[1].windowSize = 2)
        => /\ ~result[1].raised
           /\ result[1].similarity = FracOne
           /\ Len(result[1].sharedRegions) = 1
           /\ result[1].sharedRegions[1].file1Range = [start |-> 0, end |-> 7]
           /\ result[1].sharedRegions[1].file2Range = [start |-> 0, end |-> 7]
           /\ determineRegionType(result[1].sharedRegions[1]) = "EXACT")

\* C17: two files that hold one common 5-token run between otherwise
\* disjoint tokens, compared with k = 3 and w = 4, give one shared region,
\* of confidence above 0.7, strictly inside both files.
C17_Scenario3 ==
  (/\ tokensA \in Embedded(SurroundA) /\ tokensB \in Embedded(SurroundB)
   /\ result # Null /\ det[1].kgramSize = 3 /\ det[1].windowSize = 4)
  => /\ ~result[1].raised
     /\ Len(result[1].sharedRegions) = 1
     /\ ~FracLeq(result[1].sharedRegions[1].confidence, Frac(7, 10))
     /\ result[1].sharedRegions[1].file1Range.start > 0
     /\ result[1].sharedRegions[1].file1Range.end < Len(tokensA) - 1
     /\ result[1].sharedRegions[1].file2Range.start > 0
     /\ result[1].sharedRegions[1].file2Range.end < Len(tokensB) - 1

\* Sums, products and quotients of fractions
FracAdd(x, y) == Frac(x[1] * y[2] + y[1] * x[2], x[2] * y[2])
FracMul(x, y) == Frac(x[1] * y[1], x[2] * y[2])
FracDiv(x, y) == Frac(x[1] * y[2], x[2] * y[1])

\* min(1, 0.8 * clusterSize / max(1, L / k) + 0.2 * L / (5k))
SpecifiedConfidence(clusterSize, L, k) ==
  FracMin(FracOne,
          FracAdd(FracMul(Frac(4, 5),
                          FracDiv(Frac(clusterSize, 1), FracMax(FracOne, Frac(L, k)))),
                  FracMul(Frac(1, 5), Frac(L, 5 * k))))

\* The matches findSharedRegions hands to clusterMatchesIntoRegions
MatchesOf(fingerprints1, fingerprints2) ==
  SortByKey([j \in DOMAIN MatchesFrom(JsSet([n \in DOMAIN fingerprints1 |->
                                                fingerprints1[n].hash]),
                                       fingerprints1, fingerprints2, 1, <<>>) |->
               <<MatchesFrom(JsSet([n \in DOMAIN fingerprints1 |-> fingerprints1[n].hash]),
                             fingerprints1, fingerprints2, 1, <<>>)[j].fp1.position,
                 MatchesFrom(JsSet([n \in DOMAIN fingerprints1 |-> fingerprints1[n].hash]),
                             fingerprints1, fingerprints2, 1, <<>>)[j]>>])

\* The clusters clusterMatchesIntoRegions turns into regions, each as
\* <<size of the cluster, region built from it>>
RECURSIVE BuiltFrom(_, _, _, _, _, _, _)
BuiltFrom(d, tokens1, tokens2, matches, i, c, acc) ==
  IF i > Len(matches)
  THEN IF Len(c.currentCluster) >= 2
       THEN Append(acc, <<Len(c.currentCluster),
                          createSharedRegion(d, c.currentCluster, tokens1, tokens2)>>)
       ELSE acc
  ELSE BuiltFrom(d, tokens1, tokens2, matches, i + 1,
                 ClusterStep(d, tokens1, tokens2, c, matches[i]),
                 IF Len(ClusterStep(d, tokens1, tokens2, c, matches[i]).regions)
                      > Len(c.regions)
                 THEN Append(acc, <<Len(c.currentCluster),
                                    createSharedRegion(d, c.currentCluster,
                                                       tokens1, tokens2)>>)
                 ELSE acc)

\* The regions the latest compareTwoFiles call built from clusters
Built ==
  BuiltFrom(det[1], tokensA, tokensB,
            MatchesOf(generateFingerprints(det[1], tokensA).positionedFingerprints,
                      generateFingerprints(det[1], tokensB).positionedFingerprints),
            1, [regions |-> <<>>, currentCluster |-> <<>>], <<>>)

\* Every region of built has the specified confidence for its cluster size
\* and its file-A span
AsSpecified(built, k) ==
  \A b \in DOMAIN built :
    built[b][2].confidence
      = SpecifiedConfidence(built[b][1],
                            built[b][2].file1Range.end - built[b][2].file1Range.start + 1,
                            k)

\* C15: every region built from a cluster has confidence
\* min(1, 0.8 * clusterSize / max(1, L / k) + 0.2 * L / (5k)), and the
\* confidence of every returned region lies in [0, 1].
C15_Confidence ==
  (result # Null /\ ~result[1].raised) =>
    /\ AsSpecified(Built, det[1].kgramSize)
    /\ \A r \in DOMAIN result[1].sharedRegions :
         /\ FracLeq(FracZero, result[1].sharedRegions[r].confidence)
         /\ FracLeq(result[1].sharedRegions[r].confidence, FracOne)

\* C15 witness: a returned region whose confidence is below 1.
C15_Witness ==
  /\ result # Null
  /\ ~result[1].raised
  /\ \E r \in DOMAIN result[1].sharedRegions :
       /\ result[1].sharedRegions[r].confidence # FracOne
       /\ \E b \in DOMAIN Built : Built[b][2] = result[1].sharedRegions[r]

\* Position p = <<row, col>> is at or before position q
LexLeq(p, q) == p[1] < q[1] \/ (p[1] = q[1] /\ p[2] <= q[2])
LexMin(p, q) == IF LexLeq(p, q) THEN p ELSE q
LexMax(p, q) == IF LexLeq(p, q) THEN q ELSE p
StartOf(region) == <<region.startRow, region.startCol>>
EndOf(region) == <<region.endRow, region.endCol>>

\* C18: new Region(startRow, startCol, endRow, endCol) raises exactly when
\* not (startRow < endRow or (startRow = endRow and startCol <= endCol));
\* (5,0,3,0) fails and (2,0,2,5) succeeds; the constructor and Region.merge
\* produce valid regions only.
C18_RegionValidity ==
  regionCall # Null =>
    /\ regionCall[1].op = "new" =>
         /\ regionCall[1].raised
              <=> ~(\/ regionCall[1].args[1] < regionCall[1].args[3]
                    \/ /\ regionCall[1].args[1] = regionCall[1].args[3]
                       /\ regionCall[1].args[2] <= regionCall[1].args[4])
         /\ regionCall[1].args = <<5, 0, 3, 0>> => regionCall[1].raised
         /\ regionCall[1].args = <<2, 0, 2, 5>> => ~regionCall[1].raised
         /\ ~regionCall[1].raised =>
              /\ StartOf(regionCall[1].value[1])
                   = <<regionCall[1].args[1], regionCall[1].args[2]>>
              /\ EndOf(regionCall[1].value[1])
                   = <<regionCall[1].args[3], regionCall[1].args[4]>>
    /\ regionCall[1].op = "merge" =>
         /\ ~regionCall[1].raised
         /\ LexLeq(StartOf(regionCall[1].value[1]), EndOf(regionCall[1].value[1]))

\* C18 witness: the constructor has raised on (5,0,3,0).
C18_Witness ==
  /\ regionCall # Null
  /\ regionCall[1].op = "new"
  /\ regionCall[1].args = <<5, 0, 3, 0>>
  /\ regionCall[1].raised

\* C19: Region.merge(a, b) of two valid regions starts at the smaller of the
\* two starts and ends at the larger of the two ends, whatever the order of
\* the arguments; merge(a, a) = a; merge((0,0,1,0), (1,0,2,0)) = (0,0,2,0).
C19_MergeCovers ==
  (regionCall # Null /\ regionCall[1].op = "merge") =>
    /\ ~regionCall[1].raised
    /\ StartOf(regionCall[1].value[1])
         = LexMin(<<coordsA[1], coordsA[2]>>, <<coordsB[1], coordsB[2]>>)
    /\ EndOf(regionCall[1].value[1])
         = LexMax(<<coordsA[3], coordsA[4]>>, <<coordsB[3], coordsB[4]>>)
    /\ regionCall[1].value[1] = RegionMerge(RegionOf(coordsB), RegionOf(coordsA))
    /\ coordsA = coordsB => regionCall[1].value[1] = RegionOf(coordsA)
    /\ (coordsA = <<0, 0, 1, 0>> /\ coordsB = <<1, 0, 2, 0>>)
         => regionCall[1].value[1] = RegionOf(<<0, 0, 2, 0>>)

\* C19 witness: two regions on one row, the second starting and ending
\* further left, have been merged.
C19_Witness ==
  /\ regionCall # Null
  /\ regionCall[1].op = "merge"
  /\ coordsA[1] = coordsB[1] /\ coordsA[3] = coordsB[3]
  /\ coordsB[2] < coordsA[2] /\ coordsB[4] < coordsA[4]

\* Region a comes at or before region b in the order of Region.compare
ComesFirst(a, b) ==
  \/ ~LexLeq(StartOf(b), StartOf(a))
  \/ StartOf(a) = StartOf(b) /\ LexLeq(EndOf(a), EndOf(b))

\* The end of the earlier region is strictly before the start of the later
EndsBefore(earlier, later) ==
  /\ LexLeq(EndOf(earlier), StartOf(later))
  /\ EndOf(earlier) # StartOf(later)

\* C20: a.overlapsWith(b) is true exactly when the end of the earlier of the
\* two regions is not strictly before the start of the later one, and
\* b.overlapsWith(a) gives the same answer.
C20_Overlap ==
  (regionCall # Null /\ regionCall[1].op = "overlapsWith") =>
    /\ regionCall[1].value[1]
         = IF ComesFirst(RegionOf(coordsA), RegionOf(coordsB))
           THEN ~EndsBefore(RegionOf(coordsA), RegionOf(coordsB))
           ELSE ~EndsBefore(RegionOf(coordsB), RegionOf(coordsA))
    /\ regionCall[1].value[1] = overlapsWith(RegionOf(coordsB), RegionOf(coordsA))

\* C21: no WinnowFilter, FingerprintIndex or detector exists with a kgram
\* size below 1 or a window size below 1: a constructor called with such
\* arguments raises and leaves no object.
C21_InvalidParametersFail ==
  /\ wf.k >= 1 /\ wf.windowSize >= 1
  /\ idx.kgramLength >= 1 /\ idx.windowSize >= 1
  /\ idx.hashFilter.k >= 1 /\ idx.hashFilter.windowSize >= 1
  /\ det # Null =>
       /\ det[1].kgramSize >= 1 /\ det[1].windowSize >= 1
       /\ det[1].winnowFilter.k >= 1 /\ det[1].winnowFilter.windowSize >= 1

\* C22: fingerprints(tokens) on a stream of fewer than k tokens, the empty
\* stream included, returns the empty array.
C22_ShortInput ==
  (fpsA # Null /\ Len(tokensA) < wf.k) => fpsA[1] = <<>>

\* C22 witness: a call on k - 1 = 2 tokens with a window of 2 has returned,
\* the file position one short of the first k-gram.
C22_Witness ==
  /\ fpsA # Null
  /\ wf.k = 3 /\ wf.windowSize = 2
  /\ Len(tokensA) = 2
  /\ frame.filePos = -1

\* C23: the id of a file never changes, the ids of distinct file objects are
\* pairwise different, and an id assigned automatically is greater than the
\* id of every file created before.
C23_FileIdentity ==
  /\ [](\A i \in DOMAIN objects : \A j \in DOMAIN objects :
          i # j => objects[i].id # objects[j].id)
  /\ [][\A j \in DOMAIN objects : objects'[j].id = objects[j].id]_vars
  /\ [][ConstructFileCall(Null) =>
          \A j \in DOMAIN objects : objects'[Len(objects')].id > objects[j].id]_vars

\* Exact naturals below 2^57 as <<hi, lo>> = hi * 2^26 + lo with lo < 2^26
Radix == 8192 * 8192
WideOf(n) == <<n \div Radix, n % Radix>>
WideAdd(x, y) == <<x[1] + y[1] + ((x[2] + y[2]) \div Radix), (x[2] + y[2]) % Radix>>
WideLeq(x, y) == x[1] < y[1] \/ (x[1] = y[1] /\ x[2] <= y[2])
RECURSIVE Pow16(_)
Pow16(n) == IF n = 0 THEN 1 ELSE 16 * Pow16(n - 1)

\* a * b exactly for a < 2^26 and b < 2^28, b taken in seven base-16 digits
\* from the most significant
RECURSIVE WideMulFrom(_, _, _, _)
WideMulFrom(a, b, n, x) ==
  IF n = 0 THEN x
  ELSE LET lo == x[2] * 16 + a * ((b \div Pow16(n - 1)) % 16)
       IN  WideMulFrom(a, b, n - 1, <<x[1] * 16 + (lo \div Radix), lo % Radix>>)
WideMul(a, b) == WideMulFrom(a, b, 7, <<0, 0>>)

\* The remainder of a wide number modulo MOD
WideMod(x) == (MulMod(x[1] % MOD, Radix % MOD) + (x[2] % MOD)) % MOD

\* x < 2^53 = 2^27 * 2^26
Below2p53(x) == x[1] < 8192 * 16384

\* hashToken(token): every (hash + token.charCodeAt(i)) * this.base is below
\* 2^53 and its remainder is the next hash
RECURSIVE HashTokenWithin(_, _, _)
HashTokenWithin(token, i, hash) ==
  IF i > Len(token) THEN TRUE
  ELSE /\ Below2p53(WideMul(hash + token[i], TOKEN_BASE))
       /\ WideMod(WideMul(hash + token[i], TOKEN_BASE)) = MulMod(hash + token[i], TOKEN_BASE)
       /\ HashTokenWithin(token, i + 1, MulMod(hash + token[i], TOKEN_BASE))

\* nextHash(token) on object r: this.base * this.hash + token
\*   + this.maxBase * this.memory[this.i], exactly
NextHashExact(r, token) ==
  WideAdd(WideAdd(WideMul(r.hash, ROLL_BASE), WideOf(token)),
          WideMul(r.memory[r.i], r.maxBase))

\* modPow: every b * y and b * b is below 2^53
RECURSIVE ModPowWithin(_, _, _)
ModPowWithin(y, b, e) ==
  IF e > 1
  THEN /\ (e % 2 = 1 => Below2p53(WideMul(b, y)))
       /\ Below2p53(WideMul(b, b))
       /\ ModPowWithin(IF e % 2 = 1 THEN MulMod(b, y) ELSE y, MulMod(b, b), e \div 2)
  ELSE Below2p53(WideMul(b, y))

\* The RollingHash(k) object after the first n of the values fed
RECURSIVE Replay(_, _, _)
Replay(k, values, n) ==
  IF n = 0 THEN NewRollingHash(k) ELSE nextHash(Replay(k, values, n - 1), values[n])

\* C24: every value hashToken and nextHash return is in [0, MOD), and every
\* intermediate of hashToken, nextHash and modPow is below 2^53: on the
\* calls made, and for the largest hash MOD - 1, token hash MOD - 1,
\* character code 65535 and maxBase MOD - 1.
C24_HashArithmetic ==
  /\ out \in 0..(MOD - 1)
  /\ \A j \in DOMAIN fed : fed[j] \in 0..(MOD - 1)
  /\ \A j \in DOMAIN tokensA :
       /\ hashToken(tokensA[j]) \in 0..(MOD - 1)
       /\ HashTokenWithin(tokensA[j], 1, 0)
  /\ \A j \in DOMAIN fed :
       /\ Below2p53(NextHashExact(Replay(rh.k, fed, j - 1), fed[j]))
       /\ WideMod(NextHashExact(Replay(rh.k, fed, j - 1), fed[j]))
            = Replay(rh.k, fed, j).hash
       /\ Replay(rh.k, fed, j).hash \in 0..(MOD - 1)
  /\ ModPowWithin(1, ROLL_BASE, rh.k)
  /\ rh.maxBase \in 1..MOD
  /\ Below2p53(WideMul(MOD - 1 + 65535, TOKEN_BASE))
  /\ Below2p53(WideAdd(WideAdd(WideMul(MOD - 1, ROLL_BASE), WideOf(MOD - 1)),
                       WideMul(MOD - 1, MOD - 1)))

\* C24 witness: a token of one character of code 65535 was hashed and fed,
\* and the latest nextHash call evicted a non-zero value and computed an
\* intermediate above 2^49.
C24_Witness ==
  /\ Len(fed) = rh.k + 1
  /\ \E j \in DOMAIN tokensA : tokensA[j] = <<65535>>
  /\ fed[1] # 0
  /\ ~WideLeq(NextHashExact(Replay(rh.k, fed, Len(fed) - 1), fed[Len(fed)]),
              <<8192 * 1024, 0>>)
  /\ out = Replay(rh.k, fed, Len(fed)).hash

\* The k-gram positions in the window of the last w k-grams when the newest
\* k-gram starts at p
WindowAt(p, w) == Max2(0, p - w + 1)..p

\* The rightmost position of the window at p whose k-gram hash is the
\* minimum over the window
RightmostMinimum(tokens, k, w, p) ==
  CHOOSE q \in WindowAt(p, w) :
    /\ \A r \in WindowAt(p, w) : TokenKGramHash(tokens, q, k) <= TokenKGramHash(tokens, r, k)
    /\ \A r \in WindowAt(p, w) : r > q => TokenKGramHash(tokens, q, k) < TokenKGramHash(tokens, r, k)

\* The fingerprints of after that are not in its beginning before: those the
\* loop pushed on the last token
PushedLast(before, after) == {after[j].start : j \in (Len(before) + 1)..Len(after)}

\* C25: a fingerprint pushed when the newest k-gram starts at p is at the
\* rightmost position of the window at p that has the window's minimum hash.
C25_RightmostTieBreak ==
  fpsA # Null =>
    \A n \in wf.k..Len(tokensA) :
      \A start \in PushedLast(fingerprints(wf, SubSeq(tokensA, 1, n - 1)),
                              fingerprints(wf, SubSeq(tokensA, 1, n))) :
        start = RightmostMinimum(tokensA, wf.k, wf.windowSize, n - wf.k)

\* C26: with a window of 1, fingerprints(tokens) on n >= k tokens returns
\* n - k + 1 fingerprints, the i-th (from 0) with start i, stop i + k - 1 and
\* the hash of tokens[i..i+k-1].
C26_WindowOfOne ==
  (fpsA # Null /\ wf.windowSize = 1 /\ Len(tokensA) >= wf.k) =>
    /\ Len(fpsA[1]) = Len(tokensA) - wf.k + 1
    /\ \A i \in 0..(Len(tokensA) - wf.k) :
         /\ fpsA[1][i + 1].start = i
         /\ fpsA[1][i + 1].stop = i + wf.k - 1
         /\ fpsA[1][i + 1].hash = TokenKGramHash(tokensA, i, wf.k)

\* C26 witness: a call with a window of 1 and k = 2 on a stream of the
\* largest length that holds a k-gram twice, the later k-gram hash above an
\* earlier one.
C26_Witness ==
  /\ fpsA # Null
  /\ wf.windowSize = 1 /\ wf.k = 2
  /\ Len(tokensA) = MaxLen
  /\ \E i \in 1..Len(fpsA[1]) : \E j \in 1..Len(fpsA[1]) :
       i < j /\ fpsA[1][i].hash = fpsA[1][j].hash
  /\ \E i \in 1..(Len(fpsA[1]) - 1) : fpsA[1][i].hash < fpsA[1][i + 1].hash

\* C28: on a stream of at least k tokens the fingerprints returned start at
\* strictly increasing offsets, the first at 0, consecutive ones at most w
\* apart, the last at most w - 1 before the last k-gram.
C28_DensityAndOrder ==
  (fpsA # Null /\ Len(tokensA) >= wf.k) =>
    /\ Len(fpsA[1]) >= 1
    /\ fpsA[1][1].start = 0
    /\ \A j \in 1..(Len(fpsA[1]) - 1) :
         /\ fpsA[1][j].start < fpsA[1][j + 1].start
         /\ fpsA[1][j + 1].start - fpsA[1][j].start <= wf.windowSize
    /\ fpsA[1][Len(fpsA[1])].start <= Len(tokensA) - wf.k
    /\ (Len(tokensA) - wf.k) - fpsA[1][Len(fpsA[1])].start <= wf.windowSize - 1

\* C28 witness: with a window of 3, two consecutive fingerprints a whole
\* window apart, two others next to each other, and the last fingerprint
\* before the last k-gram.
C28_Witness ==
  /\ fpsA # Null
  /\ wf.windowSize = 3
  /\ Len(tokensA) >= wf.k
  /\ \E j \in 1..(Len(fpsA[1]) - 1) : fpsA[1][j + 1].start - fpsA[1][j].start = 3
  /\ \E j \in 1..(Len(fpsA[1]) - 1) : fpsA[1][j + 1].start - fpsA[1][j].start = 1
  /\ (Len(tokensA) - wf.k) - fpsA[1][Len(fpsA[1])].start >= 1

\* |n|
Abs(n) == IF n < 0 THEN 0 - n ELSE n

\* Match cur joins the cluster whose last match is prev: the gap from the
\* stop of prev to the start of cur is at most 2k in file A and in file B,
\* and the two files moved by at most k apart
Joins(prev, cur, k) ==
  /\ cur.fp1.start - prev.fp1.stop <= 2 * k
  /\ Abs(cur.fp2.start - prev.fp2.stop) <= 2 * k
  /\ Abs((cur.fp1.start - prev.fp1.start) - (cur.fp2.start - prev.fp2.start)) <= k

\* The last match of the cluster that starts at match number b
ClusterEnd(matches, b, k) ==
  CHOOSE e \in b..Len(matches) :
    /\ \A i \in (b + 1)..e : Joins(matches[i - 1], matches[i], k)
    /\ e < Len(matches) => ~Joins(matches[e], matches[e + 1], k)

\* The clusters of at least 2 matches from match number b on, as <<first,
\* last>> match numbers
RECURSIVE ClustersFrom(_, _, _)
ClustersFrom(matches, b, k) ==
  IF b > Len(matches) THEN <<>>
  ELSE (IF ClusterEnd(matches, b, k) > b
        THEN <<(<<b, ClusterEnd(matches, b, k)>>)>>
        ELSE <<>>)
       \o ClustersFrom(matches, ClusterEnd(matches, b, k) + 1, k)

\* The regions of the clusters, one for each, in order
RegionsOfClusters(d, tokens1, tokens2, matches, clusters) ==
  [c \in DOMAIN clusters |->
     createSharedRegion(d, SubSeq(matches, clusters[c][1], clusters[c][2]),
                        tokens1, tokens2)]

\* The regions returned are those of the clusters, merged, and each holds a
\* cluster of at least two matches
ClusteredByRule(d, tokens1, tokens2, matches, clusters, returned) ==
  /\ \A i \in 1..(Len(matches) - 1) : matches[i].fp1.start <= matches[i + 1].fp1.start
  /\ returned = mergeOverlappingRegions(
                  RegionsOfClusters(d, tokens1, tokens2, matches, clusters))
  /\ \A r \in DOMAIN returned :
       \E c \in DOMAIN clusters :
         /\ clusters[c][2] - clusters[c][1] + 1 >= 2
         /\ \A i \in clusters[c][1]..clusters[c][2] :
              /\ returned[r].file1Range.start <= matches[i].fp1.start
              /\ matches[i].fp1.stop <= returned[r].file1Range.end
              /\ returned[r].file2Range.start <= matches[i].fp2.start
              /\ matches[i].fp2.stop <= returned[r].file2Range.end

\* The candidate matches of the latest compareTwoFiles call, sorted
CandidateMatches ==
  MatchesOf(generateFingerprints(det[1], tokensA).positionedFingerprints,
            generateFingerprints(det[1], tokensB).positionedFingerprints)

\* C27: the matches are scanned in ascending file-A start order; a match
\* joins the current cluster exactly when both gaps are at most 2k and the
\* drift at most k; clusters of at least 2 matches become the regions, and
\* every region returned holds at least two matched fingerprint pairs.
C27_ClusteringRule ==
  (result # Null /\ ~result[1].raised) =>
    ClusteredByRule(det[1], tokensA, tokensB, CandidateMatches,
                    ClustersFrom(CandidateMatches, 1, det[1].kgramSize),
                    result[1].sharedRegions)

\* C27 witness: a call that returned a region, closed a cluster because a
\* match did not join it, and dropped a cluster of one match.
C27_Witness ==
  /\ result # Null /\ ~result[1].raised
  /\ Len(result[1].sharedRegions) >= 1
  /\ \E i \in 2..Len(CandidateMatches) :
       ~Joins(CandidateMatches[i - 1], CandidateMatches[i], det[1].kgramSize)
  /\ \E b \in DOMAIN CandidateMatches :
       /\ ClusterEnd(CandidateMatches, b, det[1].kgramSize) = b
       /\ b > 1 => ~Joins(CandidateMatches[b - 1], CandidateMatches[b], det[1].kgramSize)

\* C29: every file object that has an occurrence in a SharedFingerprint of
\* the index is the object the files map holds under its id.
C29_OccurrencesRegistered ==
  \A n \in DOMAIN idx.index :
    \A m \in DOMAIN idx.index[n][2].partMap :
      /\ MapHas(idx.files, objects[idx.index[n][2].partMap[m][1]].id)
      /\ MapGet(idx.files, objects[idx.index[n][2].partMap[m][1]].id).file
           = idx.index[n][2].partMap[m][1]

\* Every region of the one list has a counterpart in the other with
\* file1Range and file2Range swapped
Counterparts(regions, swapped) ==
  \A r \in DOMAIN regions :
    \E q \in DOMAIN swapped :
      /\ swapped[q].file1Range = regions[r].file2Range
      /\ swapped[q].file2Range = regions[r].file1Range

\* The regions of the two calls mirror each other
Mirrored(regions, swapped) ==
  /\ Len(regions) = Len(swapped)
  /\ Counterparts(regions, swapped)
  /\ Counterparts(swapped, regions)

\* C30: compareTwoFiles(A, B) and compareTwoFiles(B, A) return the same
\* number of shared regions, and each region of one call has a counterpart
\* in the other with file1Range and file2Range swapped.
C30_RegionsSymmetric ==
  (result # Null /\ ~result[1].raised) =>
    Mirrored(result[1].sharedRegions,
             compareTwoFiles(det[1], tokensB, tokensA).sharedRegions)

====
